---------------------------- MODULE Spec2Model ----------------------------
(* typed-rpc: the JSON-RPC 2.0 server dispatcher (src/src/server.ts,        *)
(* handleRpc with transcoder support) and the client call dispatcher        *)
(* (src/src/client.ts, rpcClient) with its transports.                      *)
EXTENDS Integers, Sequences, FiniteSets, TLC

(***************************************************************************)
(* Bounds of the model.                                                    *)
(***************************************************************************)
\* request ids that are numbers range over 1..MaxId
MaxId == 1
\* params arrays hold at most MaxParams arguments
MaxParams == 1
\* a client makes at most MaxCalls calls
MaxCalls == 2
\* the clock Date.now() reads runs over 1..MaxClock
MaxClock == 2
\* a call passes at most MaxArgs arguments
MaxArgs == 3

\* connect() creates at most MaxSockets WebSockets
MaxSockets == 2
\* at most MaxStrayMessages inbound messages answer no request that was sent
MaxStrayMessages == 1

(***************************************************************************)
(* JavaScript values.  Every value is a record tagged by "t"; the other    *)
(* field names differ per tag, so values of different types compare        *)
(* unequal.  Absent marks a property an object does not have.              *)
(***************************************************************************)
Undefined == [t |-> "undefined"]
Null == [t |-> "null"]
Absent == [t |-> "absent"]
Num(n) == [t |-> "number", n |-> n]
NaN == [t |-> "number", nan |-> TRUE]
Str(s) == [t |-> "string", s |-> s]
Bool(b) == [t |-> "boolean", b |-> b]
Arr(a) == [t |-> "array", a |-> a]
Func(f) == [t |-> "function", f |-> f]
BigInt == [t |-> "bigint", big |-> 10]
DateValue(iso) == [t |-> "date", iso |-> iso]
\* a String object, new String(s): typeof "object", JSON text of the string
StringObject(s) == [t |-> "stringobject", s |-> s]

\* the typeof operator
TypeOf(v) ==
  CASE v.t \in {"undefined", "absent"} -> "undefined"
    [] v.t \in {"null", "object", "array", "date", "stringobject"} -> "object"
    [] OTHER -> v.t

\* the members every object inherits from Object.prototype (the ones the
\* model names); an object made by Object.create(null) carries the marker
\* field "nullproto" and inherits nothing
ObjectPrototype == {"toString", "hasOwnProperty", "constructor"}

\* own property test
HasOwn(obj, prop) ==
  prop \in DOMAIN obj /\ prop \notin {"t", "nullproto"} /\ obj[prop] # Absent

\* the `in` operator on a non-null object: own or inherited
In(prop, obj) ==
  \/ HasOwn(obj, prop)
  \/ obj.t = "object" /\ "nullproto" \notin DOMAIN obj /\ prop \in ObjectPrototype

\* property read obj.prop (undefined when the property is missing)
Get(obj, prop) ==
  IF HasOwn(obj, prop) THEN obj[prop]
  ELSE IF In(prop, obj) THEN Func(prop)
  ELSE Undefined

\* an Error-like object: `name` is the constructor, `code`/`data` optional
ErrorObject(name, message, code, data) ==
  [t |-> "object", name |-> Str(name), message |-> message,
   code |-> code, data |-> data]

\* new Error(message)
NewError(message) == ErrorObject("Error", Str(message), Absent, Absent)

\* new TypeError(message)
NewTypeError(message) == ErrorObject("TypeError", Str(message), Absent, Absent)

\* a completion of a call: a returned value or a thrown one
Returns(v) == [threw |-> FALSE, v |-> v]
Throws(e) == [threw |-> TRUE, v |-> e]

(***************************************************************************)
(* JSON.stringify followed by JSON.parse, on the data values of the model. *)
(***************************************************************************)
\* JSON.stringify(v): a thrown TypeError, undefined, or the JSON text,
\* which is represented by the value JSON.parse yields for it
JsonStringify(v) ==
  CASE v.t = "bigint" ->
         Throws(NewTypeError("Do not know how to serialize a BigInt"))
    [] v.t \in {"undefined", "absent", "function"} -> Returns(Undefined)
    [] v.t = "date" -> Returns(Str(v.iso))
    [] v.t = "stringobject" -> Returns(Str(v.s))
    [] v.t = "number" /\ "nan" \in DOMAIN v -> Returns(Null)
    [] OTHER -> Returns(v)

\* a member of an object in JSON text: JSON.stringify leaves out a member
\* whose value is undefined or a function
JsonMember(v) ==
  IF JsonStringify(v).v = Undefined THEN Absent ELSE JsonStringify(v).v

\* JSON.parse(JSON.stringify(v)) of an object and of the objects it holds
JsonObject(v) ==
  [m \in DOMAIN v |->
     IF m \in {"t", "nullproto"} THEN v[m]
     ELSE IF v[m].t = "object"
     THEN [n \in DOMAIN v[m] |->
             IF n \in {"t", "nullproto"} THEN v[m][n] ELSE JsonMember(v[m][n])]
     ELSE JsonMember(v[m])]

\* an array in JSON text: JSON.stringify writes null for an element that is
\* undefined or a function
JsonArray(a) ==
  [i \in 1..Len(a) |->
     IF JsonStringify(a[i]).v = Undefined THEN Null ELSE JsonStringify(a[i]).v]

\* res.json(result) of the host followed by res.json() of fetchTransport
\* (JSON.parse of the message listener alike): the envelope the client's
\* transport resolves with
OverJsonText(envelope) ==
  IF envelope.t = "object" THEN JsonObject(envelope)
  ELSE JsonStringify(envelope).v

(***************************************************************************)
(* The service handed to handleRpc.  TestService is the service of         *)
(* src/src/test/server.ts (hello, throwError, throwErrorWithCode) with     *)
(* further members, one per kind of member or of thrown value.             *)
(***************************************************************************)
OwnMembers ==
  {"hello", "noop", "throwError", "throwErrorWithCode", "throwNull",
   "throwString", "throwUndefined", "throwStringCode", "throwNoMessage",
   "throwWithData", "throwWithBigIntData", "throwWithFunctionData",
   "throwWithDateData", "$internal", "count"}

\* the value of the service's own member m: a function, but for `count`
Member(m) == IF m = "count" THEN Num(3) ELSE Func(m)

TestService ==
  [m \in OwnMembers \cup {"t"} |-> IF m = "t" THEN "object" ELSE Member(m)]

\* the same members on an object without a prototype (Object.create(null))
BareService ==
  [m \in OwnMembers \cup {"t", "nullproto"} |->
     IF m = "t" THEN "object" ELSE IF m = "nullproto" THEN TRUE ELSE Member(m)]

Services == {TestService, BareService, Null}

\* `${v}` in a template literal
TemplateString(v) ==
  CASE v.t = "string" -> v.s
    [] v.t = "null" -> "null"
    [] OTHER -> "undefined"

\* args[i], undefined past the end
Arg(args, i) == IF i <= Len(args) THEN args[i] ELSE Undefined

\* the value thrown by the service's throwing members
Thrown(f) ==
  CASE f = "throwError" -> NewError("Test error")
    [] f = "throwErrorWithCode" ->
         ErrorObject("Error", Str("Test error"), Num(1234), Absent)
    [] f = "throwNull" -> Null
    [] f = "throwString" -> Str("boom")
    [] f = "throwUndefined" -> Undefined
    [] f = "throwStringCode" ->
         ErrorObject("Error", Str("no such file"), Str("ENOENT"), Absent)
    [] f = "throwNoMessage" -> [t |-> "object", code |-> Num(7)]
    [] f = "throwWithData" ->
         ErrorObject("Error", Str("Sorry Dave."), Absent,
                     [t |-> "object", foo |-> Str("bar")])
    [] f = "throwWithBigIntData" ->
         ErrorObject("Error", Str("Sorry Dave."), Absent, BigInt)
    [] f = "throwWithFunctionData" ->
         ErrorObject("Error", Str("Sorry Dave."), Absent, Func("callback"))
    [] f = "throwWithDateData" ->
         ErrorObject("Error", Str("Sorry Dave."), Absent,
                     DateValue("1970-01-01T00:00:00.000Z"))

\* Object(v), what Object.prototype.constructor is: a new object for
\* undefined and null, the String object of a string, an object as it is
ObjectOf(v) ==
  CASE v.t \in {"undefined", "null", "absent"} -> [t |-> "object"]
    [] v.t = "string" -> StringObject(v.s)
    [] OTHER -> v

\* the completion of calling function f with this = self and arguments args
Apply(f, self, args) ==
  CASE f = "hello" ->
         Returns(Str("Hello " \o TemplateString(Arg(args, 1)) \o "!"))
    [] f \in {"noop", "$internal"} -> Returns(Undefined)
    [] f = "toString" -> Returns(Str("[object Object]"))
    [] f = "hasOwnProperty" ->
         Returns(Bool(Arg(args, 1).t = "string" /\ HasOwn(self, Arg(args, 1).s)))
    [] f = "constructor" -> Returns(ObjectOf(Arg(args, 1)))
    [] OTHER -> Throws(Thrown(f))

(***************************************************************************)
(* Requests handed to handleRpc: any value.                                *)
(***************************************************************************)
JsonRpcVersions == {Absent, Str("2.0"), Str("1.0")}

RequestIds ==
  {Absent, Null, Str("a"), Bool(TRUE)} \cup {Num(n) : n \in 1..MaxId}

MethodNames == OwnMembers \cup ObjectPrototype \cup {"nonexistent"}

RequestMethods == {Absent, Num(5)} \cup {Str(m) : m \in MethodNames}

ArgValues == {Str("World")}

ArgLists == UNION {[1..n -> ArgValues] : n \in 0..MaxParams}

RequestParams == {Absent, Str("World")} \cup {Arr(a) : a \in ArgLists}

\* every id with every method and params; a request whose jsonrpc or params
\* is off is tried with the method hello, a number and none
RequestObjects ==
  {r \in [t : {"object"}, jsonrpc : JsonRpcVersions, id : RequestIds,
          method : RequestMethods, params : RequestParams] :
     (r.jsonrpc # Str("2.0") \/ r.params = Str("World"))
        => r.method \in {Absent, Num(5), Str("hello")}}

\* a request as the superjson transcoder puts it on the wire
Wrapped(x) == [t |-> "object", json |-> x]

WrappedRequests ==
  {Wrapped(r) : r \in {q \in RequestObjects :
                         q.jsonrpc = Str("2.0") /\ q.id \in {Absent, Num(1)}
                         /\ q.params = Absent}}

Requests ==
  RequestObjects \cup WrappedRequests
    \cup {Null, Undefined, Str("{ jsonrpc: 2.0 }"), Arr(<<>>)}

(***************************************************************************)
(* RpcHandlerOptions.  A hook is "absent", "masks" (returns its own fixed  *)
(* value, as the /error-masked-api route does) or "throws"; onError is     *)
(* "absent", "logs" or "throws".                                           *)
(***************************************************************************)
Transcoders ==
  {"absent", "identity", "superjson", "throwsOnDeserialize", "throwsOnSerialize"}

AllOptions ==
  [transcoder : Transcoders,
   onError : {"absent", "logs", "throws"},
   getErrorCode : {"absent", "masks", "throws"},
   getErrorMessage : {"absent", "masks", "throws"},
   getErrorData : {"absent", "masks", "throws"}]

\* the hooks of an options object that are configured
Configured(o) ==
  {h \in {"onError", "getErrorCode", "getErrorMessage", "getErrorData"} :
     o[h] # "absent"}

\* the hooks of an options object that throw
Throwing(o) == {h \in Configured(o) : o[h] = "throws"}

\* the options the model calls handleRpc with: every combination of masking
\* hooks, each hook throwing alone, each transcoder alone, and superjson with
\* masking hooks (the /complex-api route)
OptionsSet ==
  {o \in AllOptions :
     /\ Cardinality(Throwing(o)) <= 1
     /\ Throwing(o) # {} => Cardinality(Configured(o)) = 1
     /\ o.onError # "absent" => Cardinality(Configured(o)) = 1
     /\ o.transcoder \notin {"absent", "superjson"} => Configured(o) = {}
     /\ o.transcoder = "superjson" =>
          Configured(o) \in {{}, {"getErrorCode", "getErrorMessage"}}}

\* what a throwing hook or transcoder throws
HookFailure(name) == NewError(name \o " failed")

\* transcoder.deserialize(x)
Deserialize(transcoder, x) ==
  CASE transcoder = "throwsOnDeserialize" -> Throws(HookFailure("deserialize"))
    [] transcoder = "superjson" ->
         IF x.t \in {"null", "undefined"}
         THEN Throws(NewTypeError("Cannot destructure property 'json'"))
         ELSE Returns(IF x.t = "object" /\ HasOwn(x, "json")
                      THEN x.json ELSE Undefined)
    [] OTHER -> Returns(x)

\* transcoder.serialize(x)
Serialize(transcoder, x) ==
  CASE transcoder = "throwsOnSerialize" -> Throws(HookFailure("serialize"))
    [] transcoder = "superjson" -> Returns(Wrapped(x))
    [] OTHER -> Returns(x)

\* a ?? b
Nullish(a, b) == IF a.t \in {"undefined", "null", "absent"} THEN b ELSE a

(***************************************************************************)
(* The helpers of server.ts.                                               *)
(***************************************************************************)
\* isJsonRpcRequest without the check of params
isJsonRpcRequestAnyParams(r) ==
  /\ TypeOf(r) = "object" /\ r # Null
  /\ Get(r, "jsonrpc") = Str("2.0")
  /\ TypeOf(Get(r, "method")) = "string"
  /\ \/ Get(r, "id") = Undefined
     \/ TypeOf(Get(r, "id")) = "string"
     \/ TypeOf(Get(r, "id")) = "number"
     \/ Get(r, "id") = Null

\* a test that does not look at the id
isJsonRpcRequestAnyId(r) ==
  /\ TypeOf(r) = "object" /\ r # Null
  /\ Get(r, "jsonrpc") = Str("2.0")
  /\ TypeOf(Get(r, "method")) = "string"
  /\ \/ Get(r, "params") = Undefined
     \/ Get(r, "params").t = "array"

isJsonRpcRequest(r) ==
  /\ TypeOf(r) = "object" /\ r # Null
  /\ Get(r, "jsonrpc") = Str("2.0")
  /\ TypeOf(Get(r, "method")) = "string"
  /\ \/ Get(r, "id") = Undefined
     \/ TypeOf(Get(r, "id")) = "string"
     \/ TypeOf(Get(r, "id")) = "number"
     \/ Get(r, "id") = Null
  /\ \/ Get(r, "params") = Undefined
     \/ Get(r, "params").t = "array"

hasProperty(obj, prop) == TypeOf(obj) = "object" /\ obj # Null /\ In(prop, obj)

\* hasMethod without the typeof check
hasMethodAnyProperty(obj, prop) == hasProperty(obj, prop)

hasMethod(obj, prop) ==
  hasProperty(obj, prop) /\ TypeOf(Get(obj, prop)) = "function"

getErrorCode(e) ==
  IF hasProperty(e, "code") /\ TypeOf(Get(e, "code")) = "number"
  THEN Get(e, "code") ELSE Num(-32000)

\* getErrorMessage as `err.message`, whatever its type
getErrorMessageUnchecked(e) ==
  IF hasProperty(e, "message") THEN Get(e, "message") ELSE Undefined

getErrorMessage(e) ==
  IF hasProperty(e, "message") /\ TypeOf(Get(e, "message")) = "string"
  THEN Get(e, "message") ELSE Str("")

\* the completion of getErrorData(e): JSON.stringify may throw
getErrorData(e) ==
  IF hasProperty(e, "data")
  THEN LET stringifiedData == JsonStringify(Get(e, "data"))
       IN  IF stringifiedData.threw THEN stringifiedData
           ELSE IF stringifiedData.v # Undefined THEN Returns(stringifiedData.v)
           ELSE Returns(Get(e, "data"))
  ELSE Returns(Undefined)

\* the caught object e once getErrorData(e) has run: line 303 writes the
\* JSON copy back, err.data = JSON.parse(stringifiedData)
AfterGetErrorData(e) ==
  IF hasProperty(e, "data")
       /\ ~JsonStringify(Get(e, "data")).threw
       /\ JsonStringify(Get(e, "data")).v # Undefined
  THEN [e EXCEPT !.data = JsonStringify(Get(e, "data")).v]
  ELSE e

\* getRequestId accepting numbers only
getRequestIdNumbersOnly(r) ==
  IF hasProperty(r, "id") /\ TypeOf(Get(r, "id")) = "number"
  THEN Get(r, "id") ELSE Null

getRequestId(r) ==
  IF hasProperty(r, "id")
       /\ TypeOf(Get(r, "id")) \in {"string", "number"}
  THEN Get(r, "id") ELSE Null

\* the envelope `raw` built by res(data): data holds `result` or `error`
Envelope(i, data) ==
  IF "result" \in DOMAIN data
  THEN [t |-> "object", jsonrpc |-> Str("2.0"), id |-> i, result |-> data.result]
  ELSE [t |-> "object", jsonrpc |-> Str("2.0"), id |-> i, error |-> data.error]

\* the completion of res(data): options?.transcoder?.serialize(raw) ?? raw
Res(o, i, data) ==
  LET raw == Envelope(i, data)
      s == Serialize(o.transcoder, raw)
  IN  IF s.threw THEN s ELSE Returns(Nullish(s.v, raw))

\* the hooks an options object supplies, applied to the caught value
MaskedCode == Num(100)
MaskedMessage == Str("Something went wrong")
MaskedData == [t |-> "object", masked |-> Bool(TRUE)]

\* a catch block that derives the code itself, whatever options supplies
ErrorCodeDefaultOnly(o, e) == Returns(getErrorCode(e))

ErrorCode(o, e) ==
  CASE o.getErrorCode = "absent" -> Returns(getErrorCode(e))
    [] o.getErrorCode = "masks" -> Returns(MaskedCode)
    [] OTHER -> Throws(HookFailure("getErrorCode"))

ErrorMessage(o, e) ==
  CASE o.getErrorMessage = "absent" -> Returns(getErrorMessage(e))
    [] o.getErrorMessage = "masks" -> Returns(MaskedMessage)
    [] OTHER -> Throws(HookFailure("getErrorMessage"))

ErrorData(o, e) ==
  CASE o.getErrorData = "absent" -> getErrorData(e)
    [] o.getErrorData = "masks" -> Returns(MaskedData)
    [] OTHER -> Throws(HookFailure("getErrorData"))

\* the completion of the catch block of handleRpc for the caught value e
CatchBlock(o, i, e) ==
  IF o.onError = "throws" THEN Throws(HookFailure("onError"))
  ELSE LET code == ErrorCode(o, e)
           message == ErrorMessage(o, e)
           data == ErrorData(o, e)
       IN  IF code.threw THEN code
           ELSE IF message.threw THEN message
           ELSE IF data.threw THEN data
           ELSE Res(o, i, [error |-> [t |-> "object", code |-> code.v,
                                      message |-> message.v, data |-> data.v]])

\* the caught value e once the catch block has ended: the default
\* getErrorData runs, and changes e, unless onError or a hook called
\* before it threw
CaughtAfter(o, e) ==
  IF /\ o.onError # "throws"
     /\ ~ErrorCode(o, e).threw
     /\ ~ErrorMessage(o, e).threw
     /\ o.getErrorData = "absent"
  THEN AfterGetErrorData(e) ELSE e

\* a property key: JavaScript converts it to a string
PropertyKey(v) == TemplateString(v)

\* ...(params ?? []): the arguments spread from the params array
Spread(params) == IF params.t = "array" THEN params.a ELSE <<>>

\* service[method](...args): calling what is not a function throws a TypeError
Call(obj, prop, args) ==
  IF TypeOf(Get(obj, prop)) = "function"
  THEN Apply(Get(obj, prop).f, obj, args)
  ELSE Throws(NewTypeError("service[method] is not a function"))

\* a promise: pending, fulfilled with a value or rejected with a reason
Pending == [state |-> "pending"]
Fulfilled(v) == [state |-> "fulfilled", value |-> v]
Rejected(e) == [state |-> "rejected", reason |-> e]
Settle(c) == IF c.threw THEN Rejected(c.v) ELSE Fulfilled(c.v)

(***************************************************************************)
(* handleRpc(request, service, options) as a state machine.                *)
(***************************************************************************)
VARIABLES
  request,      \* the request argument
  service,      \* the service argument
  options,      \* the options argument
  pc,           \* where handleRpc stands: start, validate, awaiting, done
  req,          \* the deserialized request
  id,           \* getRequestId(req)
  calls,        \* the service members invoked so far, in order
  settled,      \* the completion of the invoked member, once it has run
  onErrorCalls, \* the values options.onError was called with
  returned      \* the promise handleRpc returned

serverVars ==
  <<request, service, options, pc, req, id, calls, settled, onErrorCalls, returned>>

(***************************************************************************)
(* rpcClient(options) and its transport as a state machine.                *)
(***************************************************************************)
VARIABLES
  transportKind,    \* options.transport: custom, fetch, websocket (the
                    \* websocketTransport of ws.ts) or clientWebsocket (the
                    \* websocketTransport of client.ts)
  transcoder,       \* options.transcoder of the client
  now,              \* the clock Date.now() reads
  remoteCalls,      \* the calls made on the proxy, in order
  timeout,          \* websocketTransport: options.timeout ?? 60000
  reconnectTimeout, \* websocketTransport: options.reconnectTimeout ?? 1000
  sockets,          \* the WebSockets connect() created, in order
  reconnectTimers,  \* the setTimeout(connect, ...) timers not yet fired
  pendingResponses, \* the map from request id to pending call (requests in
                    \* client.ts), 0 where the map has no entry
  onOpenCalls,      \* how often options.onOpen was called
  onMessageErrors,  \* the values options.onMessageError was called with
  uncaughtErrors    \* the values thrown out of a message listener

config == <<transportKind, transcoder, timeout, reconnectTimeout>>

clientVars ==
  <<config, now, remoteCalls, sockets, reconnectTimers, pendingResponses,
    onOpenCalls, onMessageErrors, uncaughtErrors>>

vars == <<serverVars, clientVars>>

\* no handleRpc call is under way
NoServer ==
  /\ request = Undefined /\ service = Null
  /\ options = [transcoder |-> "absent", onError |-> "absent",
                getErrorCode |-> "absent", getErrorMessage |-> "absent",
                getErrorData |-> "absent"]
  /\ pc = "idle" /\ req = Undefined /\ id = Null /\ calls = <<>>
  /\ settled = Returns(Undefined) /\ onErrorCalls = <<>> /\ returned = Pending

\* no client was made
NoClient ==
  /\ transportKind = "none" /\ transcoder = "identity" /\ now = 1
  /\ remoteCalls = <<>> /\ timeout = 0 /\ reconnectTimeout = 0
  /\ sockets = <<>> /\ reconnectTimers = 0
  /\ pendingResponses = <<>> /\ onOpenCalls = 0 /\ onMessageErrors = <<>>
  /\ uncaughtErrors = <<>>

InitServer ==
  /\ request \in Requests
  /\ service \in Services
  /\ options \in OptionsSet
  /\ pc = "start"
  /\ req = Undefined
  /\ id = Null
  /\ calls = <<>>
  /\ settled = Returns(Undefined)
  /\ onErrorCalls = <<>>
  /\ returned = Pending
  /\ NoClient

\* handleRpc ends with the completion c: its promise settles
Finish(c) ==
  /\ returned' = Settle(c)
  /\ pc' = "done"

\* lines 367-368: const req = options?.transcoder?.deserialize(request) ?? request
DeserializeRequest ==
  /\ pc = "start"
  /\ LET d == Deserialize(options.transcoder, request)
     IN  IF d.threw
         THEN /\ Finish(d)
              /\ UNCHANGED <<req, id>>
         ELSE /\ req' = Nullish(d.v, request)
              /\ id' = getRequestId(Nullish(d.v, request))
              /\ pc' = "validate"
              /\ UNCHANGED returned
  /\ UNCHANGED <<request, service, options, calls, settled, onErrorCalls>>
  /\ UNCHANGED clientVars

\* lines 378-381: the request is not a valid Request object
InvalidRequest ==
  /\ pc = "validate"
  /\ ~isJsonRpcRequest(req)
  /\ Finish(Res(options, id,
                [error |-> [t |-> "object", code |-> Num(-32600),
                            message |-> Str("Invalid Request")]]))
  /\ UNCHANGED <<request, service, options, req, id, calls, settled, onErrorCalls>>
  /\ UNCHANGED clientVars

\* lines 382-387: the service has no such method
MethodNotFound ==
  /\ pc = "validate"
  /\ isJsonRpcRequest(req)
  /\ ~hasMethod(service, PropertyKey(Get(req, "method")))
  /\ Finish(Res(options, id,
                [error |-> [t |-> "object", code |-> Num(-32601),
                            message |-> Str("Method not found: "
                                            \o TemplateString(Get(req, "method")))]]))
  /\ UNCHANGED <<request, service, options, req, id, calls, settled, onErrorCalls>>
  /\ UNCHANGED clientVars

\* line 389: service[method](...(params ?? [])) is called and awaited
InvokeMethod ==
  /\ pc = "validate"
  /\ isJsonRpcRequest(req)
  /\ hasMethod(service, PropertyKey(Get(req, "method")))
  /\ settled' = Call(service, PropertyKey(Get(req, "method")),
                     Spread(Nullish(Get(req, "params"), Arr(<<>>))))
  /\ calls' = Append(calls, PropertyKey(Get(req, "method")))
  /\ pc' = "awaiting"
  /\ UNCHANGED <<request, service, options, req, id, onErrorCalls, returned>>
  /\ UNCHANGED clientVars

\* line 390: return res({ result }), inside the try: what serialize throws
\* there is caught by the catch block as well
ReturnResult ==
  /\ pc = "awaiting"
  /\ ~settled.threw
  /\ LET r == Res(options, id, [result |-> settled.v])
     IN  IF r.threw
         THEN /\ onErrorCalls' = IF options.onError # "absent"
                                 THEN Append(onErrorCalls, CaughtAfter(options, r.v))
                                 ELSE onErrorCalls
              /\ Finish(CatchBlock(options, id, r.v))
         ELSE /\ Finish(r)
              /\ UNCHANGED onErrorCalls
  /\ UNCHANGED <<request, service, options, req, id, calls, settled>>
  /\ UNCHANGED clientVars

\* lines 391-402: the catch block.  The caught object is the one onError
\* received and the one the default getErrorData writes the copy of its data
\* to, so settled and onErrorCalls show it as the block leaves it
CatchError ==
  /\ pc = "awaiting"
  /\ settled.threw
  /\ onErrorCalls' = IF options.onError # "absent"
                     THEN Append(onErrorCalls, CaughtAfter(options, settled.v))
                     ELSE onErrorCalls
  /\ settled' = [settled EXCEPT !.v = CaughtAfter(options, settled.v)]
  /\ Finish(CatchBlock(options, id, settled.v))
  /\ UNCHANGED <<request, service, options, req, id, calls>>
  /\ UNCHANGED clientVars

NextServer ==
  \/ DeserializeRequest
  \/ InvalidRequest
  \/ MethodNotFound
  \/ InvokeMethod
  \/ ReturnResult
  \/ CatchError

SpecServer == InitServer /\ [][NextServer]_vars

(***************************************************************************)
(* isJsonRpcResponse of client.ts.                                         *)
(***************************************************************************)
\* a test that looks at the error member only when there is no result, and
\* takes any response with a result
isJsonRpcResponseResultFirst(res) ==
  /\ TypeOf(res) = "object" /\ res # Null
  /\ In("jsonrpc", res) /\ Get(res, "jsonrpc") = Str("2.0")
  /\ In("id", res)
  /\ \/ TypeOf(Get(res, "id")) = "string"
     \/ TypeOf(Get(res, "id")) = "number"
     \/ Get(res, "id") = Null
  /\ IF In("result", res) THEN TRUE
     ELSE /\ In("error", res)
          /\ LET error == Get(res, "error")
             IN  /\ TypeOf(error) = "object" /\ error # Null
                 /\ In("code", error) /\ TypeOf(Get(error, "code")) = "number"
                 /\ In("message", error)
                 /\ TypeOf(Get(error, "message")) = "string"

isJsonRpcResponse(res) ==
  /\ TypeOf(res) = "object" /\ res # Null
  /\ In("jsonrpc", res) /\ Get(res, "jsonrpc") = Str("2.0")
  /\ In("id", res)
  /\ \/ TypeOf(Get(res, "id")) = "string"
     \/ TypeOf(Get(res, "id")) = "number"
     \/ Get(res, "id") = Null
  /\ IF In("result", res) THEN ~In("error", res)
     ELSE /\ In("error", res)
          /\ LET error == Get(res, "error")
             IN  /\ TypeOf(error) = "object" /\ error # Null
                 /\ In("code", error) /\ TypeOf(Get(error, "code")) = "number"
                 /\ In("message", error)
                 /\ TypeOf(Get(error, "message")) = "string"

(***************************************************************************)
(* Claims about handleRpc, checked under SpecServer.                       *)
(***************************************************************************)
\* the service has a member m that is a function (own or inherited)
IsFunctionMember(svc, m) ==
  TypeOf(svc) = "object" /\ svc # Null /\ TypeOf(Get(svc, m)) = "function"

\* the arguments a request carries: its params, none when params is absent
ArgsOf(r) == IF Get(r, "params").t = "array" THEN Get(r, "params").a ELSE <<>>

\* what the method a valid request names does when applied to its params
MethodCompletion(r, svc) == Apply(Get(svc, Get(r, "method").s).f, svc, ArgsOf(r))

\* the request's id when that is a string or a number, null otherwise
EchoedId(r) ==
  IF TypeOf(r) = "object" /\ r # Null
       /\ TypeOf(Get(r, "id")) \in {"string", "number"}
  THEN Get(r, "id") ELSE Null

SuccessEnvelope(i, v) ==
  [t |-> "object", jsonrpc |-> Str("2.0"), id |-> i, result |-> v]

ErrorEnvelope(i, code, message) ==
  [t |-> "object", jsonrpc |-> Str("2.0"), id |-> i,
   error |-> [t |-> "object", code |-> Num(code), message |-> Str(message)]]

\* the request is handled as it came, and the envelope returned as built
NoTranscoder == options.transcoder = "absent"

\* none of getErrorCode, getErrorMessage, getErrorData is configured
NoOverrideHooks ==
  /\ options.getErrorCode = "absent"
  /\ options.getErrorMessage = "absent"
  /\ options.getErrorData = "absent"

\* C1: handleRpc never rejects: whatever the request, the service, the
\* options, and whatever the method or a hook throws, its promise fulfils.
C1_NeverRejects == pc = "done" => returned.state = "fulfilled"

\* C2 as stated: a valid request naming a function member that returns v
\* gets exactly {jsonrpc: "2.0", id, result: v} with id the request's id,
\* and the member is invoked exactly once.
C2_ResultWithRequestId ==
  ( /\ pc = "done" /\ NoTranscoder
    /\ isJsonRpcRequest(request)
    /\ IsFunctionMember(service, Get(request, "method").s)
    /\ ~MethodCompletion(request, service).threw )
  => /\ returned = Fulfilled(SuccessEnvelope(Get(request, "id"),
                                             MethodCompletion(request, service).v))
     /\ calls = <<Get(request, "method").s>>

\* C2 amended: the same, with id the request's id when that is a string or
\* a number and null when the request has no id or a null one.
C2_ResultWithEchoedId ==
  ( /\ pc = "done" /\ NoTranscoder
    /\ isJsonRpcRequest(request)
    /\ IsFunctionMember(service, Get(request, "method").s)
    /\ ~MethodCompletion(request, service).threw )
  => /\ returned = Fulfilled(SuccessEnvelope(EchoedId(request),
                                             MethodCompletion(request, service).v))
     /\ calls = <<Get(request, "method").s>>

\* a request without id for hello("World") was answered with id null
C2_Witness ==
  /\ pc = "done" /\ NoTranscoder /\ service = TestService
  /\ request = [t |-> "object", jsonrpc |-> Str("2.0"), id |-> Absent,
                method |-> Str("hello"), params |-> Arr(<<Str("World")>>)]
  /\ returned = Fulfilled(SuccessEnvelope(Null, Str("Hello World!")))
  /\ calls = <<"hello">>

\* C3 as stated: a valid request whose method is no callable member of the
\* service gets the error -32601 "Method not found: <method>" with the
\* request's id, and nothing is invoked.
C3_NotFoundWithRequestId ==
  ( /\ pc = "done" /\ NoTranscoder
    /\ isJsonRpcRequest(request)
    /\ ~IsFunctionMember(service, Get(request, "method").s) )
  => /\ returned = Fulfilled([t |-> "object", jsonrpc |-> Str("2.0"),
                              id |-> Get(request, "id"),
                              error |-> [t |-> "object", code |-> Num(-32601),
                                         message |-> Str("Method not found: "
                                            \o Get(request, "method").s)]])
     /\ calls = <<>>

\* C3 amended: the same, with id the request's id when that is a string or
\* a number and null when the request has no id or a null one.
C3_NotFoundWithEchoedId ==
  ( /\ pc = "done" /\ NoTranscoder
    /\ isJsonRpcRequest(request)
    /\ ~IsFunctionMember(service, Get(request, "method").s) )
  => /\ returned = Fulfilled(ErrorEnvelope(EchoedId(request), -32601,
                               "Method not found: " \o Get(request, "method").s))
     /\ calls = <<>>

\* a request without id for the non-function member count was answered
\* with method not found and id null
C3_Witness ==
  /\ pc = "done" /\ NoTranscoder /\ service = TestService
  /\ request = [t |-> "object", jsonrpc |-> Str("2.0"), id |-> Absent,
                method |-> Str("count"), params |-> Absent]
  /\ returned = Fulfilled(ErrorEnvelope(Null, -32601, "Method not found: count"))
  /\ calls = <<>>

\* the request is not a valid Request object: not an object, jsonrpc other
\* than "2.0", method missing or no string, params present but no array,
\* or an id that is neither a string, a number nor null
InvalidShape(r) ==
  \/ TypeOf(r) # "object" \/ r = Null
  \/ Get(r, "jsonrpc") # Str("2.0")
  \/ TypeOf(Get(r, "method")) # "string"
  \/ Get(r, "params") # Undefined /\ Get(r, "params").t # "array"
  \/ Get(r, "id") # Undefined
       /\ TypeOf(Get(r, "id")) \notin {"string", "number"} /\ Get(r, "id") # Null

\* C4: a request that is not a valid request gets the error -32600
\* "Invalid Request" with the request's id when that is a string or a
\* number and null otherwise, and nothing is invoked.
C4_InvalidRequest ==
  (pc = "done" /\ NoTranscoder /\ InvalidShape(request))
  => /\ returned = Fulfilled(ErrorEnvelope(EchoedId(request), -32600,
                                           "Invalid Request"))
     /\ calls = <<>>

\* a request with a string for params and the id "a" was refused with id "a"
C4_Witness ==
  /\ pc = "done" /\ NoTranscoder /\ service = TestService
  /\ request = [t |-> "object", jsonrpc |-> Str("2.0"), id |-> Str("a"),
                method |-> Str("hello"), params |-> Str("World")]
  /\ returned = Fulfilled(ErrorEnvelope(Str("a"), -32600, "Invalid Request"))
  /\ calls = <<>>

\* C5: with no override hooks, a valid request whose method throws e gets an
\* error envelope with the request's id (null when it has none), code e.code
\* when e is an object with a numeric code and -32000 otherwise, message
\* e.message when that is a string and "" otherwise.
C5_ThrownErrorEnvelope ==
  ( /\ pc = "done" /\ NoTranscoder /\ NoOverrideHooks
    /\ options.onError = "absent"
    /\ isJsonRpcRequest(request)
    /\ IsFunctionMember(service, Get(request, "method").s)
    /\ MethodCompletion(request, service).threw )
  => LET e == MethodCompletion(request, service).v
     IN  /\ returned.state = "fulfilled"
         /\ isJsonRpcResponse(returned.value)
         /\ Get(returned.value, "id") = EchoedId(request)
         /\ In("error", returned.value)
         /\ Get(returned.value, "error").code =
              IF e.t = "object" /\ TypeOf(Get(e, "code")) = "number"
              THEN Get(e, "code") ELSE Num(-32000)
         /\ Get(returned.value, "error").message =
              IF e.t = "object" /\ TypeOf(Get(e, "message")) = "string"
              THEN Get(e, "message") ELSE Str("")

\* the members a service merely inherits from Object.prototype
Inherited(svc) == {m \in ObjectPrototype : In(m, svc) /\ ~HasOwn(svc, m)}

\* the member names of the model that start with `$`
DollarPrefixed == {"$internal"}

\* C6: handleRpc never invokes a member the service merely inherits from
\* Object.prototype nor one whose name starts with `$`: a request naming one
\* gets the -32601 method-not-found error and nothing is called.
C6_NoInheritedOrInternalMember ==
  ( /\ pc = "done" /\ NoTranscoder
    /\ isJsonRpcRequest(request) /\ service # Null
    /\ Get(request, "method").s \in Inherited(service) \cup DollarPrefixed )
  => /\ returned = Fulfilled(ErrorEnvelope(EchoedId(request), -32601,
                               "Method not found: " \o Get(request, "method").s))
     /\ calls = <<>>

\* C7: with no transcoder and no override hooks, every envelope handleRpc
\* returns satisfies isJsonRpcResponse, on every path.
C7_EnvelopeIsResponse ==
  (pc = "done" /\ returned.state = "fulfilled"
     /\ options.transcoder \in {"absent", "identity"} /\ NoOverrideHooks)
  => isJsonRpcResponse(returned.value)

\* a method threw null and the envelope carries code -32000, message ""
C7_Witness ==
  /\ pc = "done" /\ NoTranscoder /\ NoOverrideHooks
  /\ calls = <<"throwNull">>
  /\ returned.state = "fulfilled"
  /\ Get(returned.value, "error") =
       [t |-> "object", code |-> Num(-32000), message |-> Str(""),
        data |-> Undefined]

(***************************************************************************)
(* client.ts: RpcError, createRequest, the proxy and sendRequest.          *)
(***************************************************************************)
\* new RpcError(message, code, data)
RpcError(message, code, data) ==
  [t |-> "object", name |-> Str("RpcError"), message |-> message,
   code |-> code, data |-> data]

\* removeTrailingUndefs(values)
RECURSIVE removeTrailingUndefs(_)
removeTrailingUndefs(values) ==
  IF Len(values) > 0 /\ values[Len(values)] = Undefined
  THEN removeTrailingUndefs(SubSeq(values, 1, Len(values) - 1))
  ELSE values

\* createRequest(method, params) when Date.now() reads clock
createRequest(method, params, clock) ==
  [t |-> "object", jsonrpc |-> Str("2.0"), id |-> Num(clock),
   method |-> Str(method),
   params |-> IF Len(params) > 0 THEN Arr(removeTrailingUndefs(params))
              ELSE Absent]

\* the target of the proxy: { $abort }, a plain object
ProxyTarget ==
  [m \in {"t", "$abort"} |-> IF m = "t" THEN "object" ELSE Func("$abort")]

\* a Symbol used as a property key
Symbol == [t |-> "symbol"]

\* the get trap of the proxy: the target's own or inherited member, nothing
\* for a symbol and for toJSON, and a remote-call function otherwise
ProxyGet(prop) ==
  IF prop.t = "string" /\ In(prop.s, ProxyTarget) THEN "target"
  ELSE IF prop.t = "symbol" THEN "undefined"
  ELSE IF prop = Str("toJSON") THEN "undefined"
  ELSE "remote"

\* sendRequest with an RpcError built from code and message alone
HandleResponseWithoutData(tc, raw) ==
  LET d == Deserialize(tc, raw)
  IN  IF d.threw THEN d
      ELSE IF ~isJsonRpcResponse(d.v)
      THEN Throws(NewTypeError("Not a JSON-RPC 2.0 response"))
      ELSE IF In("error", d.v)
      THEN Throws(RpcError(Get(Get(d.v, "error"), "message"),
                           Get(Get(d.v, "error"), "code"), Undefined))
      ELSE Returns(Get(d.v, "result"))

\* sendRequest without the isJsonRpcResponse check: what is no response has
\* no error member and no result
HandleResponseUnvalidated(tc, raw) ==
  LET d == Deserialize(tc, raw)
  IN  IF d.threw THEN d
      ELSE IF isJsonRpcResponse(d.v) /\ In("error", d.v)
      THEN Throws(RpcError(Get(Get(d.v, "error"), "message"),
                           Get(Get(d.v, "error"), "code"),
                           Get(Get(d.v, "error"), "data")))
      ELSE Returns(IF isJsonRpcResponse(d.v) THEN Get(d.v, "result")
                   ELSE Undefined)

\* sendRequest refusing a response without an id
HandleResponseIdRequired(tc, raw) ==
  LET d == Deserialize(tc, raw)
  IN  IF d.threw THEN d
      ELSE IF ~isJsonRpcResponse(d.v) \/ Get(d.v, "id") = Null
      THEN Throws(NewTypeError("Not a JSON-RPC 2.0 response"))
      ELSE IF In("error", d.v)
      THEN Throws(RpcError(Get(Get(d.v, "error"), "message"),
                           Get(Get(d.v, "error"), "code"),
                           Get(Get(d.v, "error"), "data")))
      ELSE Returns(Get(d.v, "result"))

\* the completion of sendRequest once the transport resolved with raw
HandleResponse(tc, raw) ==
  LET d == Deserialize(tc, raw)
  IN  IF d.threw THEN d
      ELSE IF ~isJsonRpcResponse(d.v)
      THEN Throws(NewTypeError("Not a JSON-RPC 2.0 response"))
      ELSE IF In("error", d.v)
      THEN Throws(RpcError(Get(Get(d.v, "error"), "message"),
                           Get(Get(d.v, "error"), "code"),
                           Get(Get(d.v, "error"), "data")))
      ELSE Returns(Get(d.v, "result"))

\* the promise of sendRequest once the transport promise p has settled
SendRequestResult(tc, p) ==
  IF p.state = "rejected" THEN p ELSE Settle(HandleResponse(tc, p.value))

(***************************************************************************)
(* What a transport may hand back.                                         *)
(***************************************************************************)
Response(i, member, v) ==
  [m \in {"t", "jsonrpc", "id", member} |->
     CASE m = "t" -> "object"
       [] m = "jsonrpc" -> Str("2.0")
       [] m = "id" -> i
       [] OTHER -> v]

ResponseErrors ==
  {[t |-> "object", code |-> Num(-32000), message |-> Str("Sorry Dave.")],
   [t |-> "object", code |-> Num(-32000), message |-> Str("Sorry Dave."),
    data |-> [t |-> "object", foo |-> Str("bar")]],
   [t |-> "object", code |-> Num(100), message |-> Str("Something went wrong")],
   [t |-> "object", code |-> Num(400), message |-> Str("Bad Request")]}

\* responses that satisfy isJsonRpcResponse
ValidResponses ==
  {Response(Num(1), "result", v) : v \in {Str("Custom!"), Undefined}}
  \cup {Response(Str("a"), "result", Str("Custom!")),
        Response(Null, "result", Null),
        Response(Null, "error", CHOOSE e \in ResponseErrors : ~HasOwn(e, "data"))}
  \cup {Response(Num(1), "error", e) : e \in ResponseErrors}

\* values that do not
InvalidResponses ==
  {Null, Undefined, Str("Custom!"),
   [t |-> "object", invalid |-> Str("")],
   [t |-> "object", jsonrpc |-> Str("1.0"), id |-> Num(1), result |-> Null],
   [t |-> "object", jsonrpc |-> Str("2.0"), result |-> Str("Custom!")],
   [t |-> "object", jsonrpc |-> Str("2.0"), id |-> Bool(TRUE), result |-> Null],
   [t |-> "object", jsonrpc |-> Str("2.0"), id |-> Num(1)],
   [t |-> "object", jsonrpc |-> Str("2.0"), id |-> Num(1), result |-> Null,
    error |-> [t |-> "object", code |-> Num(1), message |-> Str("both")]],
   Response(Num(1), "error", Str("Sorry Dave.")),
   Response(Num(1), "error", [t |-> "object", code |-> Str("E1"),
                              message |-> Str("Sorry Dave.")]),
   Response(Num(1), "error", [t |-> "object", code |-> Num(1)]),
   Response(Num(1), "error", Null),
   Response(Num(1), "error", [t |-> "object", code |-> Num(1),
                              message |-> Num(1)])}

\* what a custom transport may resolve with: bare or superjson-wrapped
RawResponses ==
  ValidResponses \cup InvalidResponses
    \cup {Wrapped(r) : r \in {Response(Num(1), "result", Str("Custom!")),
                              Response(Num(1), "error",
                                [t |-> "object", code |-> Num(-32000),
                                 message |-> Str("Sorry Dave.")]),
                              [t |-> "object", invalid |-> Str("")]}}

\* what response.json() may yield: values JSON text can hold
JsonBodies ==
  {r \in RawResponses :
     /\ r # Undefined
     /\ r.t = "object" /\ HasOwn(r, "result") => r.result # Undefined}

\* what a custom transport may reject with
TransportFailures == {NewError("transport failed"), Undefined}

\* the rejection of an aborted fetch: the DOMException AbortError of the
\* platform fetch (legacy code 20) or the AbortError of node-fetch (no code)
AbortErrors ==
  {[t |-> "object", name |-> Str("AbortError"),
    message |-> Str("The operation was aborted."), code |-> Num(20)],
   [t |-> "object", name |-> Str("AbortError"),
    message |-> Str("The user aborted a request.")]}

\* the replies that are not res.ok: status and statusText
HttpFailures == {[status |-> 400, statusText |-> "Bad Request"],
                 [status |-> 500, statusText |-> "Internal Server Error"]}

\* ev.error of a WebSocket error event: the Error of the ws package, or
\* nothing (a browser's error event has no error member)
ConnectionErrors == {NewError("socket hang up"), Undefined}

\* what ws.send throws while the socket is still connecting: the
\* InvalidStateError DOMException of a browser (legacy code 11) or the Error
\* of the ws package
SendErrors ==
  {[t |-> "object", name |-> Str("InvalidStateError"),
    message |-> Str("Still in CONNECTING state."), code |-> Num(11)],
   NewError("WebSocket is not open: readyState 0 (CONNECTING)")}

(***************************************************************************)
(* The calls of a client.  A call holds what the proxy, sendRequest and    *)
(* the transport keep for it:                                              *)
(*   method, args  the property read on the proxy and the arguments        *)
(*   req           the request createRequest built                         *)
(*   aborted       signal.aborted of the call's AbortController            *)
(*   controller    the call's promise is still in abortControllers         *)
(*   transport     the promise the transport returned                      *)
(*   promise       the promise sendRequest returned                        *)
(*   requestId     websocket transports: the key in the pending map        *)
(*   timer         websocket transports: the timeout timer, which is       *)
(*                 none, armed, fired or cleared                           *)
(*   waiting       ws.ts: the socket on whose wsPromise the call's         *)
(*                 then/catch reaction still waits, 0 once it has run      *)
(*   settledBy     what settled the transport promise                      *)
(*   sentOn        websocket transports: the socket ws.send wrote the      *)
(*                 request to, 0 while none did (history)                  *)
(*   reconnected   the call was made after a reconnection: a socket    *)
(*                 had closed and its successor had opened (history)       *)
(* Promise reactions are jobs of their own (ResumeSendRequest,             *)
(* SendReaction, FailReaction).  A timer, a socket event or the end of an  *)
(* exchange runs only when no such job is waiting to run; the calls that   *)
(* the program itself makes (RemoteCall, AbortCall) may come at any time.  *)
(***************************************************************************)
PendingKeys == {Num(n) : n \in 1..MaxClock} \cup {Num(-1)}

\* the arguments a call passes: one, followed by an omitted one
CallArgs == {<<Str("world"), Undefined>>}

\* the properties read on the proxy
CallProps == {Str("hello"), Str("$abort"), Str("toJSON"), Str("toString"), Symbol}

\* options.timeout ?? 60_000
DefaultTimeout == 60000

\* options.reconnectTimeout ?? 1000
DefaultReconnectTimeout == 1000

WebsocketKinds == {"websocket", "clientWebsocket"}

\* the WebSocket connect() creates
NewSocket ==
  [state |-> "connecting", errorSeen |-> FALSE, promise |-> "pending",
   error |-> Undefined, sent |-> {}]

InitClient ==
  /\ transportKind \in {"custom", "fetch"} \cup WebsocketKinds
  /\ transcoder \in IF transportKind = "custom"
                    THEN {"identity", "superjson"} ELSE {"identity"}
  /\ now = 1
  /\ remoteCalls = <<>>
  /\ timeout \in IF transportKind \in WebsocketKinds
                 THEN {0, DefaultTimeout} ELSE {DefaultTimeout}
  /\ reconnectTimeout \in IF transportKind \in WebsocketKinds
                          THEN {0, DefaultReconnectTimeout}
                          ELSE {DefaultReconnectTimeout}
  /\ sockets = IF transportKind \in WebsocketKinds THEN <<NewSocket>> ELSE <<>>
  /\ reconnectTimers = 0
  /\ pendingResponses = [i \in PendingKeys |-> 0]
  /\ onOpenCalls = 0
  /\ onMessageErrors = <<>>
  /\ uncaughtErrors = <<>>
  /\ NoServer

\* resolve(v) and reject(e) of the transport promise: the first one wins
ResolveCall(c, v, by) ==
  IF c.transport = Pending
  THEN [c EXCEPT !.transport = Fulfilled(v), !.settledBy = by] ELSE c

RejectCall(c, e, by) ==
  IF c.transport = Pending
  THEN [c EXCEPT !.transport = Rejected(e), !.settledBy = by] ELSE c

\* an exit path that leaves the timer alone
KeepTimer(c) == c

\* if (pending.timeoutId) clearTimeout(pending.timeoutId)
ClearTimer(c) == IF c.timer = "armed" THEN [c EXCEPT !.timer = "cleared"] ELSE c

\* a promise reaction is waiting to run
JobsWaiting ==
  \E k \in 1..Len(remoteCalls) :
    \/ remoteCalls[k].transport # Pending /\ remoteCalls[k].promise = Pending
    \/ remoteCalls[k].promise # Pending /\ remoteCalls[k].controller
    \/ /\ remoteCalls[k].waiting # 0
       /\ sockets[remoteCalls[k].waiting].promise # "pending"

\* Date.now() advances; createRequest alone reads the clock, so it is
\* followed as long as a call can still be made
Tick ==
  /\ transportKind # "none"
  /\ now < MaxClock
  /\ Len(remoteCalls) < MaxCalls
  /\ now' = now + 1
  /\ UNCHANGED <<config, remoteCalls, sockets, reconnectTimers,
                 pendingResponses, onOpenCalls, onMessageErrors, uncaughtErrors>>
  /\ UNCHANGED serverVars

\* an earlier socket has closed, the socket of the latest connect() has
\* opened and onOpen was called for it as well
Reconnected ==
  /\ transportKind = "websocket"
  /\ Len(sockets) > 1
  /\ reconnectTimeout # 0
  /\ sockets[Len(sockets)].state = "open"
  /\ sockets[Len(sockets)].promise = "resolved"
  /\ \E s \in 1..(Len(sockets) - 1) : sockets[s].state = "closed"
  /\ onOpenCalls > 1

\* the call sendRequest has just made, before its transport ran
NewCall(prop, args) ==
  [method |-> prop.s, args |-> args, req |-> createRequest(prop.s, args, now),
   aborted |-> FALSE, controller |-> TRUE, transport |-> Pending,
   promise |-> Pending, requestId |-> Null, timer |-> "none", waiting |-> 0,
   settledBy |-> "none", sentOn |-> 0, reconnected |-> Reconnected]

\* a transport that waits for the promise of the first connection, whatever
\* connect() assigned to wsPromise since
WebsocketTransportCallFirstSocket(c, k) ==
  LET requestId == Nullish(Get(Serialize(transcoder, c.req).v, "id"), Num(-1))
  IN  /\ remoteCalls' = Append(remoteCalls,
           [c EXCEPT !.requestId = requestId,
                     !.timer = IF timeout > 0 THEN "armed" ELSE "none",
                     !.waiting = 1])
      /\ pendingResponses' = [pendingResponses EXCEPT ![requestId] = k]
      /\ UNCHANGED sockets

\* a transport that arms the timer whatever the timeout
WebsocketTransportCallAlwaysTimed(c, k) ==
  LET requestId == Nullish(Get(Serialize(transcoder, c.req).v, "id"), Num(-1))
  IN  /\ remoteCalls' = Append(remoteCalls,
           [c EXCEPT !.requestId = requestId,
                     !.timer = "armed",
                     !.waiting = Len(sockets)])
      /\ pendingResponses' = [pendingResponses EXCEPT ![requestId] = k]
      /\ UNCHANGED sockets

\* the transport of ws.ts called with the request of call c, the k-th call:
\* arm the timer, set the pending entry, wait for wsPromise
WebsocketTransportCall(c, k) ==
  LET requestId == Nullish(Get(Serialize(transcoder, c.req).v, "id"), Num(-1))
  IN  /\ remoteCalls' = Append(remoteCalls,
           [c EXCEPT !.requestId = requestId,
                     !.timer = IF timeout > 0 THEN "armed" ELSE "none",
                     !.waiting = Len(sockets)])
      /\ pendingResponses' = [pendingResponses EXCEPT ![requestId] = k]
      /\ UNCHANGED sockets

\* the transport of client.ts called with the request of call c, the k-th
\* call: refuse an id that is pending; else arm the timer, set the entry and
\* ws.send on the current socket, which throws while that is connecting and
\* drops the data once it is closing or closed
ClientWebsocketTransportCall(c, k) ==
  LET requestId == Nullish(Get(Serialize(transcoder, c.req).v, "id"), Num(-1))
      ws == sockets[Len(sockets)]
      armed == [c EXCEPT !.requestId = requestId,
                         !.timer = IF timeout > 0 THEN "armed" ELSE "none"]
  IN  IF pendingResponses[requestId] # 0
      THEN /\ remoteCalls' = Append(remoteCalls,
                RejectCall([c EXCEPT !.requestId = requestId],
                           RpcError(Str("Request already exists"), Num(-32000),
                                    Undefined), "duplicate"))
           /\ UNCHANGED <<pendingResponses, sockets>>
      ELSE /\ pendingResponses' = [pendingResponses EXCEPT ![requestId] = k]
           /\ IF ws.state = "connecting"
              THEN /\ \E e \in SendErrors :
                        remoteCalls' =
                          Append(remoteCalls, RejectCall(armed, e, "send"))
                   /\ UNCHANGED sockets
              ELSE /\ remoteCalls' = Append(remoteCalls,
                        [armed EXCEPT !.sentOn = IF ws.state = "open"
                                                 THEN Len(sockets) ELSE @])
                   /\ sockets' = [sockets EXCEPT ![Len(sockets)].sent =
                        IF ws.state = "open" THEN @ \cup {k} ELSE @]

\* client[prop](...args): the proxy's get trap, sendRequest up to its await,
\* and the transport called with the serialized request and the signal
RemoteCall(prop, args) ==
  /\ transportKind # "none"
  /\ Len(remoteCalls) < MaxCalls
  /\ ProxyGet(prop) = "remote"
  /\ LET c == NewCall(prop, args)
         k == Len(remoteCalls) + 1
     IN  CASE transportKind = "websocket" -> WebsocketTransportCall(c, k)
           [] transportKind = "clientWebsocket" ->
                ClientWebsocketTransportCall(c, k)
           [] OTHER -> /\ remoteCalls' = Append(remoteCalls, c)
                       /\ UNCHANGED <<pendingResponses, sockets>>
  /\ UNCHANGED <<config, now, reconnectTimers, onOpenCalls, onMessageErrors,
                 uncaughtErrors>>
  /\ UNCHANGED serverVars

\* sendRequest resumes after `await transport(...)` and settles the promise
\* of the call
ResumeSendRequest(k) ==
  /\ k \in 1..Len(remoteCalls)
  /\ remoteCalls[k].transport # Pending
  /\ remoteCalls[k].promise = Pending
  /\ remoteCalls' = [remoteCalls EXCEPT
       ![k].promise = SendRequestResult(transcoder, remoteCalls[k].transport)]
  /\ UNCHANGED <<config, now, sockets, reconnectTimers, pendingResponses,
                 onOpenCalls, onMessageErrors, uncaughtErrors>>
  /\ UNCHANGED serverVars

\* the finally callback of the settled promise, a later job:
\* abortControllers.delete(promise)
DeleteController(k) ==
  /\ k \in 1..Len(remoteCalls)
  /\ remoteCalls[k].promise # Pending
  /\ remoteCalls[k].controller
  /\ remoteCalls' = [remoteCalls EXCEPT ![k].controller = FALSE]
  /\ UNCHANGED <<config, now, sockets, reconnectTimers, pendingResponses,
                 onOpenCalls, onMessageErrors, uncaughtErrors>>
  /\ UNCHANGED serverVars

\* an abort that rejects with a plain Error
RequestAbortedUncoded == NewError("Request aborted")

\* new RpcError("Request aborted", -32000)
RequestAborted == RpcError(Str("Request aborted"), Num(-32000), Undefined)

\* an abort that reaches every controller of the client
AbortEveryCall(k) ==
  /\ k \in 1..Len(remoteCalls)
  /\ remoteCalls[k].controller
  /\ ~remoteCalls[k].aborted
  /\ remoteCalls' = [j \in 1..Len(remoteCalls) |->
       LET c == [remoteCalls[j] EXCEPT !.aborted = TRUE]
       IN  IF transportKind = "custom" THEN c
           ELSE RejectCall(ClearTimer(c), RequestAborted, "abort")]
  /\ UNCHANGED <<config, now, sockets, reconnectTimers, pendingResponses,
                 onOpenCalls, onMessageErrors, uncaughtErrors>>
  /\ UNCHANGED serverVars

\* client.$abort(promise): abortControllers.get(promise)?.abort().  The
\* fetch in flight rejects with an AbortError; signal.onabort of a websocket
\* transport clears the timer and rejects with "Request aborted" (the
\* transport of client.ts sets no onabort for a request it refused).
AbortCall(k) ==
  /\ k \in 1..Len(remoteCalls)
  /\ remoteCalls[k].controller
  /\ ~remoteCalls[k].aborted
  /\ \E e \in AbortErrors :
       LET c == [remoteCalls[k] EXCEPT !.aborted = TRUE]
       IN  remoteCalls' = [remoteCalls EXCEPT ![k] =
             CASE transportKind = "fetch" -> RejectCall(c, e, "abort")
               [] transportKind = "websocket" ->
                    RejectCall(ClearTimer(c), RequestAborted, "abort")
               [] transportKind = "clientWebsocket" /\ c.settledBy # "duplicate" ->
                    RejectCall(ClearTimer(c), RequestAborted, "abort")
               [] OTHER -> c]
  /\ UNCHANGED <<config, now, sockets, reconnectTimers, pendingResponses,
                 onOpenCalls, onMessageErrors, uncaughtErrors>>
  /\ UNCHANGED serverVars

\* a custom transport settles its promise.  The transport is a function of
\* the caller: it settles when it likes, also while promise jobs of the
\* client wait (an async function that returns at once has settled when the
\* call returns)
CustomTransportSettles(k) ==
  /\ transportKind = "custom"
  /\ k \in 1..Len(remoteCalls)
  /\ remoteCalls[k].transport = Pending
  /\ \/ \E raw \in RawResponses :
          remoteCalls' = [remoteCalls EXCEPT ![k] = ResolveCall(@, raw, "response")]
     \/ \E e \in TransportFailures :
          remoteCalls' = [remoteCalls EXCEPT ![k] = RejectCall(@, e, "transport")]
  /\ UNCHANGED <<config, now, sockets, reconnectTimers, pendingResponses,
                 onOpenCalls, onMessageErrors, uncaughtErrors>>
  /\ UNCHANGED serverVars

(***************************************************************************)
(* fetchTransport.                                                         *)
(***************************************************************************)
\* fetch rejects: the exchange itself fails
FetchFails(k) ==
  /\ transportKind = "fetch"
  /\ ~JobsWaiting
  /\ k \in 1..Len(remoteCalls)
  /\ remoteCalls[k].transport = Pending
  /\ remoteCalls' = [remoteCalls EXCEPT ![k] =
       RejectCall(@, NewTypeError("fetch failed"), "network")]
  /\ UNCHANGED <<config, now, sockets, reconnectTimers, pendingResponses,
                 onOpenCalls, onMessageErrors, uncaughtErrors>>
  /\ UNCHANGED serverVars

\* the reply is not res.ok: throw new RpcError(res.statusText, res.status)
FetchNotOk(k) ==
  /\ transportKind = "fetch"
  /\ ~JobsWaiting
  /\ k \in 1..Len(remoteCalls)
  /\ remoteCalls[k].transport = Pending
  /\ \E h \in HttpFailures :
       remoteCalls' = [remoteCalls EXCEPT ![k] =
         RejectCall(@, RpcError(Str(h.statusText), Num(h.status), Undefined),
                    "http")]
  /\ UNCHANGED <<config, now, sockets, reconnectTimers, pendingResponses,
                 onOpenCalls, onMessageErrors, uncaughtErrors>>
  /\ UNCHANGED serverVars

\* the reply is res.ok: return await res.json(), which rejects with a
\* SyntaxError when the body is no JSON text
FetchOk(k) ==
  /\ transportKind = "fetch"
  /\ ~JobsWaiting
  /\ k \in 1..Len(remoteCalls)
  /\ remoteCalls[k].transport = Pending
  /\ \/ \E body \in JsonBodies :
          remoteCalls' = [remoteCalls EXCEPT ![k] = ResolveCall(@, body, "response")]
     \/ remoteCalls' = [remoteCalls EXCEPT ![k] =
          RejectCall(@, ErrorObject("SyntaxError",
                                    Str("Unexpected end of JSON input"),
                                    Absent, Absent), "body")]
  /\ UNCHANGED <<config, now, sockets, reconnectTimers, pendingResponses,
                 onOpenCalls, onMessageErrors, uncaughtErrors>>
  /\ UNCHANGED serverVars

(***************************************************************************)
(* The websocket transports.  sockets holds the WebSocket of every         *)
(* connect(), the last one being the current one (wsPromise in ws.ts, ws   *)
(* in client.ts):                                                          *)
(*   state      connecting, open, closing or closed                        *)
(*   errorSeen  ws.ts: the once-only error listener has run                *)
(*   promise    ws.ts: the wsPromise of this connect(), which is pending,  *)
(*              resolved or rejected with error                            *)
(*   sent       the calls whose request went out on the socket and has     *)
(*              not been answered                                          *)
(***************************************************************************)
\* pendingResponses.get(i)
PendingFor(i) == IF i \in DOMAIN pendingResponses THEN pendingResponses[i] ELSE 0

\* "..." + res.id
IdText(i) == IF i.t = "string" THEN i.s ELSE ToString(i.n)

\* setTimeout(connect, reconnectTimeout) fires: connect()
Reconnect ==
  /\ ~JobsWaiting
  /\ reconnectTimers > 0
  /\ Len(sockets) < MaxSockets
  /\ sockets' = Append(sockets, NewSocket)
  /\ reconnectTimers' = reconnectTimers - 1
  /\ UNCHANGED <<config, now, remoteCalls, pendingResponses, onOpenCalls,
                 onMessageErrors, uncaughtErrors>>
  /\ UNCHANGED serverVars

\* a timer whose callback rejects nothing
TimeoutFiresSilently(k) ==
  /\ ~JobsWaiting
  /\ k \in 1..Len(remoteCalls)
  /\ remoteCalls[k].timer = "armed"
  /\ remoteCalls' = [remoteCalls EXCEPT ![k].timer = "fired"]
  /\ UNCHANGED <<config, now, sockets, reconnectTimers, pendingResponses,
                 onOpenCalls, onMessageErrors, uncaughtErrors>>
  /\ UNCHANGED serverVars

\* the timeout timer of a call fires
TimeoutFires(k) ==
  /\ ~JobsWaiting
  /\ k \in 1..Len(remoteCalls)
  /\ remoteCalls[k].timer = "armed"
  /\ remoteCalls' = [remoteCalls EXCEPT ![k] =
       RejectCall([@ EXCEPT !.timer = "fired"],
         RpcError(Str(IF transportKind = "websocket" THEN "Request timed out"
                      ELSE "Request timed out. (id: "
                             \o IdText(remoteCalls[k].requestId) \o ")"),
                  Num(-32000), Undefined),
         "timeout")]
  /\ UNCHANGED <<config, now, sockets, reconnectTimers, pendingResponses,
                 onOpenCalls, onMessageErrors, uncaughtErrors>>
  /\ UNCHANGED serverVars

\* the message of the SyntaxError JSON.parse throws for a text that is no
\* JSON text
SyntaxErrorMessage(text) ==
  CASE text = "not json" ->
         "Unexpected token 'o', \"not json\" is not valid JSON"
    [] text = "{" -> "Expected property name or '}' in JSON at position 1"
    [] OTHER -> "Unexpected end of JSON input"

\* JSON.parse(ev.data.toString()) of a message
JsonParse(data) ==
  IF data.kind = "json" THEN Returns(data.value)
  ELSE Throws(ErrorObject("SyntaxError", Str(SyntaxErrorMessage(data.text)),
                          Absent, Absent))

\* the request of a call as the server's JSON.parse yields it from the text
\* the transport sent, ws.send(JSON.stringify(req))
SentRequest(r) ==
  IF r.params = Absent THEN r
  ELSE [r EXCEPT !.params = Arr(JsonArray(r.params.a))]

\* what a server of the test host answers to the request r, as the
\* listener's JSON.parse yields it: the wss handler the result of handleRpc
\* on the service, the brokenWss handler "Received method: <method>"
AnswersTo(r) ==
  LET sent == SentRequest(r)
  IN  {OverJsonText(Response(getRequestId(sent), "result",
         Apply(Get(sent, "method").s, TestService,
               Spread(Nullish(Get(sent, "params"), Arr(<<>>)))).v)),
       OverJsonText(Response(Get(sent, "id"), "result",
         Str("Received method: " \o TemplateString(Get(sent, "method")))))}

\* the requests the calls of a client can carry
CallRequests ==
  {createRequest(p.s, a, n) :
     p \in {x \in CallProps : ProxyGet(x) = "remote"},
     a \in CallArgs, n \in 1..MaxClock}

\* the answers to these requests, computed once
AnswersToCalls == [r \in CallRequests |-> AnswersTo(r)]

\* what a server of the test host answers to the request of call c
Answers(c) ==
  IF c.req \in CallRequests THEN AnswersToCalls[c.req] ELSE AnswersTo(c.req)

\* the messages of brokenWss that answer no request: sendInvalidJSON,
\* sendInvalidVersion, sendUnknownID
StrayMessages ==
  {[kind |-> "text", text |-> "{\"invalid json\":"],
   [kind |-> "json", value |-> [t |-> "object", jsonrpc |-> Str("1.0")]],
   [kind |-> "json",
    value |-> Response(Str("unknown-id"), "result", Str("This ID does not exist"))]}

\* a response with the id null, which the listeners take for a notification
\* of the peer
Notifications ==
  {[kind |-> "json", value |-> Response(Null, "result", Str("notification"))]}

\* a listener that hands the response to the oldest call that still has an
\* entry, whatever the id
DispatchByArrival(res) ==
  LET ks == {k \in 1..Len(remoteCalls) :
               pendingResponses[remoteCalls[k].requestId] = k}
      k == CHOOSE x \in ks : \A y \in ks : x <= y
  IN  IF ks = {}
      THEN /\ onMessageErrors' =
                Append(onMessageErrors,
                       NewError("Request not found for id: " \o IdText(res.id)))
           /\ UNCHANGED <<remoteCalls, pendingResponses>>
      ELSE /\ pendingResponses' =
                [pendingResponses EXCEPT ![remoteCalls[k].requestId] = 0]
           /\ remoteCalls' = [remoteCalls EXCEPT ![k] =
                ResolveCall(ClearTimer(@), res, "response")]
           /\ UNCHANGED onMessageErrors

\* a listener that forgets every pending entry when it reports an id
\* without entry
DispatchForgetting(res) ==
  LET k == PendingFor(res.id)
  IN  IF k = 0
      THEN /\ onMessageErrors' =
                Append(onMessageErrors,
                       NewError("Request not found for id: " \o IdText(res.id)))
           /\ pendingResponses' = [i \in DOMAIN pendingResponses |-> 0]
           /\ UNCHANGED remoteCalls
      ELSE /\ pendingResponses' = [pendingResponses EXCEPT ![res.id] = 0]
           /\ remoteCalls' = [remoteCalls EXCEPT ![k] =
                ResolveCall(ClearTimer(@), res, "response")]
           /\ UNCHANGED onMessageErrors

\* the listener's steps once the message is parsed and is a response with
\* an id: report an id without entry, else delete the entry, clear the
\* timer and resolve
Dispatch(res) ==
  LET k == PendingFor(res.id)
  IN  IF k = 0
      THEN /\ onMessageErrors' =
                Append(onMessageErrors,
                       NewError("Request not found for id: " \o IdText(res.id)))
           /\ UNCHANGED <<remoteCalls, pendingResponses>>
      ELSE /\ pendingResponses' = [pendingResponses EXCEPT ![res.id] = 0]
           /\ remoteCalls' = [remoteCalls EXCEPT ![k] =
                ResolveCall(ClearTimer(@), res, "response")]
           /\ UNCHANGED onMessageErrors

\* a listener of ws.ts whose JSON.parse is outside the try block
OnMessageUnguarded(data) ==
  LET parsed == JsonParse(data)
      res == parsed.v
  IN  IF parsed.threw
      THEN /\ uncaughtErrors' = Append(uncaughtErrors, parsed.v)
           /\ UNCHANGED <<remoteCalls, pendingResponses, onMessageErrors>>
      ELSE /\ IF ~isJsonRpcResponse(res)
              THEN /\ onMessageErrors' =
                        Append(onMessageErrors, NewTypeError("Invalid response"))
                   /\ UNCHANGED <<remoteCalls, pendingResponses>>
              ELSE IF res.id = Null
              THEN UNCHANGED <<remoteCalls, pendingResponses, onMessageErrors>>
              ELSE Dispatch(res)
           /\ UNCHANGED uncaughtErrors

\* a listener of ws.ts that looks a null id up like any other id
OnMessageNullLookedUp(data) ==
  LET parsed == JsonParse(data)
      res == parsed.v
  IN  /\ IF parsed.threw
         THEN /\ onMessageErrors' = Append(onMessageErrors, parsed.v)
              /\ UNCHANGED <<remoteCalls, pendingResponses>>
         ELSE IF ~isJsonRpcResponse(res)
         THEN /\ onMessageErrors' =
                   Append(onMessageErrors, NewTypeError("Invalid response"))
              /\ UNCHANGED <<remoteCalls, pendingResponses>>
         ELSE IF res.id = Null
         THEN /\ onMessageErrors' =
                   Append(onMessageErrors,
                          NewError("Request not found for id: null"))
              /\ UNCHANGED <<remoteCalls, pendingResponses>>
         ELSE Dispatch(res)
      /\ UNCHANGED uncaughtErrors

\* a listener that takes the entry of the id for granted: without entry,
\* pending.timeoutId throws a TypeError out of the listener
OnMessageDereferencing(data) ==
  LET parsed == JsonParse(data)
      res == parsed.v
  IN  IF parsed.threw
      THEN /\ onMessageErrors' = Append(onMessageErrors, parsed.v)
           /\ UNCHANGED <<remoteCalls, pendingResponses, uncaughtErrors>>
      ELSE IF ~isJsonRpcResponse(res)
      THEN /\ onMessageErrors' =
                Append(onMessageErrors, NewTypeError("Invalid response"))
           /\ UNCHANGED <<remoteCalls, pendingResponses, uncaughtErrors>>
      ELSE IF res.id = Null
      THEN UNCHANGED <<remoteCalls, pendingResponses, onMessageErrors,
                       uncaughtErrors>>
      ELSE IF PendingFor(res.id) = 0
      THEN /\ uncaughtErrors' =
                Append(uncaughtErrors,
                       NewTypeError("Cannot read properties of undefined (reading 'timeoutId')"))
           /\ UNCHANGED <<remoteCalls, pendingResponses, onMessageErrors>>
      ELSE /\ Dispatch(res)
           /\ UNCHANGED uncaughtErrors

\* the message listener of ws.ts run on data
OnMessage(data) ==
  LET parsed == JsonParse(data)
      res == parsed.v
  IN  /\ IF parsed.threw
         THEN /\ onMessageErrors' = Append(onMessageErrors, parsed.v)
              /\ UNCHANGED <<remoteCalls, pendingResponses>>
         ELSE IF ~isJsonRpcResponse(res)
         THEN /\ onMessageErrors' =
                   Append(onMessageErrors, NewTypeError("Invalid response"))
              /\ UNCHANGED <<remoteCalls, pendingResponses>>
         ELSE IF res.id = Null
         THEN UNCHANGED <<remoteCalls, pendingResponses, onMessageErrors>>
         ELSE Dispatch(res)
      /\ UNCHANGED uncaughtErrors

\* the message listener of client.ts run on data: JSON.parse is not guarded
ClientOnMessage(data) ==
  LET parsed == JsonParse(data)
      res == parsed.v
  IN  IF parsed.threw
      THEN /\ uncaughtErrors' = Append(uncaughtErrors, parsed.v)
           /\ UNCHANGED <<remoteCalls, pendingResponses, onMessageErrors>>
      ELSE /\ IF ~isJsonRpcResponse(res)
              THEN /\ onMessageErrors' =
                        Append(onMessageErrors, NewTypeError("Invalid response"))
                   /\ UNCHANGED <<remoteCalls, pendingResponses>>
              ELSE IF res.id = Null
              THEN UNCHANGED <<remoteCalls, pendingResponses, onMessageErrors>>
              ELSE Dispatch(res)
           /\ UNCHANGED uncaughtErrors

\* the server answers a request it received on socket s
ServerAnswers(s, k) ==
  /\ ~JobsWaiting
  /\ s \in 1..Len(sockets)
  /\ sockets[s].state = "open"
  /\ k \in sockets[s].sent
  /\ \E res \in Answers(remoteCalls[k]) :
       IF transportKind = "websocket"
       THEN OnMessage([kind |-> "json", value |-> res])
       ELSE ClientOnMessage([kind |-> "json", value |-> res])
  /\ sockets' = [sockets EXCEPT ![s].sent = @ \ {k}]
  /\ UNCHANGED <<config, now, reconnectTimers, onOpenCalls>>
  /\ UNCHANGED serverVars

\* socket s receives a message that answers no request
StrayMessage(s) ==
  /\ ~JobsWaiting
  /\ s \in 1..Len(sockets)
  /\ sockets[s].state = "open"
  /\ Len(onMessageErrors) + Len(uncaughtErrors) < MaxStrayMessages
  /\ \E data \in StrayMessages \cup Notifications :
       IF transportKind = "websocket"
       THEN OnMessage(data) ELSE ClientOnMessage(data)
  /\ UNCHANGED <<config, now, sockets, reconnectTimers, onOpenCalls>>
  /\ UNCHANGED serverVars

(***************************************************************************)
(* websocketTransport of ws.ts: the listeners of a socket and the          *)
(* reactions on wsPromise.                                                 *)
(***************************************************************************)
\* the open listener: options.onOpen?.(ev, ws); resolve(ws)
SocketOpen(s) ==
  /\ transportKind = "websocket"
  /\ ~JobsWaiting
  /\ s \in 1..Len(sockets)
  /\ sockets[s].state = "connecting"
  /\ sockets' = [sockets EXCEPT ![s].state = "open", ![s].promise = "resolved"]
  /\ onOpenCalls' = onOpenCalls + 1
  /\ UNCHANGED <<config, now, remoteCalls, reconnectTimers, pendingResponses,
                 onMessageErrors, uncaughtErrors>>
  /\ UNCHANGED serverVars

\* an error listener that schedules a reconnect itself, besides closing
SocketErrorReconnecting(s) ==
  /\ transportKind = "websocket"
  /\ ~JobsWaiting
  /\ s \in 1..Len(sockets)
  /\ sockets[s].state \in {"connecting", "open"}
  /\ ~sockets[s].errorSeen
  /\ \E e \in ConnectionErrors :
       sockets' = [sockets EXCEPT ![s] =
         [@ EXCEPT !.state = "closing", !.errorSeen = TRUE,
                   !.promise = IF @ = "pending" THEN "rejected" ELSE @,
                   !.error = IF sockets[s].promise = "pending" THEN e ELSE @]]
  /\ reconnectTimers' =
       IF reconnectTimeout # 0 THEN reconnectTimers + 1 ELSE reconnectTimers
  /\ UNCHANGED <<config, now, remoteCalls, pendingResponses,
                 onOpenCalls, onMessageErrors, uncaughtErrors>>
  /\ UNCHANGED serverVars

\* the error listener, registered with { once: true }: ws.close();
\* reject(ev.error)
SocketError(s) ==
  /\ transportKind = "websocket"
  /\ ~JobsWaiting
  /\ s \in 1..Len(sockets)
  /\ sockets[s].state \in {"connecting", "open"}
  /\ ~sockets[s].errorSeen
  /\ \E e \in ConnectionErrors :
       sockets' = [sockets EXCEPT ![s] =
         [@ EXCEPT !.state = "closing", !.errorSeen = TRUE,
                   !.promise = IF @ = "pending" THEN "rejected" ELSE @,
                   !.error = IF sockets[s].promise = "pending" THEN e ELSE @]]
  /\ UNCHANGED <<config, now, remoteCalls, reconnectTimers, pendingResponses,
                 onOpenCalls, onMessageErrors, uncaughtErrors>>
  /\ UNCHANGED serverVars

\* the reasons a close event carries
CloseReasons == {"", "reconnect"}

\* a close listener that looks at ev.wasClean only
OnCloseUncleanOnly(wasClean, reason) ==
  reconnectTimers' =
    IF reconnectTimeout # 0 /\ ~wasClean
    THEN reconnectTimers + 1 ELSE reconnectTimers

\* the body of the close listener of ws.ts on an event with ev.wasClean and
\* ev.reason: if (reconnectTimeout !== 0 && (!ev.wasClean || ev.reason ===
\* "reconnect")) setTimeout(connect, reconnectTimeout)
OnClose(wasClean, reason) ==
  reconnectTimers' =
    IF reconnectTimeout # 0 /\ (~wasClean \/ reason = "reconnect")
    THEN reconnectTimers + 1 ELSE reconnectTimers

\* the close event of socket s: the close listener runs
SocketClose(s) ==
  /\ transportKind = "websocket"
  /\ ~JobsWaiting
  /\ s \in 1..Len(sockets)
  /\ sockets[s].state \in {"open", "closing"}
  /\ \E wasClean \in BOOLEAN, reason \in CloseReasons :
       OnClose(wasClean, reason)
  /\ sockets' = [sockets EXCEPT ![s].state = "closed", ![s].sent = {}]
  /\ UNCHANGED <<config, now, remoteCalls, pendingResponses, onOpenCalls,
                 onMessageErrors, uncaughtErrors>>
  /\ UNCHANGED serverVars

\* wsPromise.then((ws) => ws.send(JSON.stringify(req))): a socket that is
\* no longer open drops the data
SendReaction(k) ==
  /\ k \in 1..Len(remoteCalls)
  /\ remoteCalls[k].waiting # 0
  /\ sockets[remoteCalls[k].waiting].promise = "resolved"
  /\ remoteCalls' = [remoteCalls EXCEPT
       ![k].waiting = 0,
       ![k].sentOn = IF sockets[remoteCalls[k].waiting].state = "open"
                     THEN remoteCalls[k].waiting ELSE @]
  /\ sockets' = [sockets EXCEPT ![remoteCalls[k].waiting].sent =
       IF sockets[remoteCalls[k].waiting].state = "open" THEN @ \cup {k} ELSE @]
  /\ UNCHANGED <<config, now, reconnectTimers, pendingResponses, onOpenCalls,
                 onMessageErrors, uncaughtErrors>>
  /\ UNCHANGED serverVars

\* a catch callback that rejects but leaves the entry and the timer
FailReactionRejectOnly(k) ==
  /\ k \in 1..Len(remoteCalls)
  /\ remoteCalls[k].waiting # 0
  /\ sockets[remoteCalls[k].waiting].promise = "rejected"
  /\ remoteCalls' = [remoteCalls EXCEPT ![k] =
       RejectCall([@ EXCEPT !.waiting = 0],
                  sockets[remoteCalls[k].waiting].error, "connection")]
  /\ UNCHANGED <<config, now, sockets, reconnectTimers, pendingResponses,
                 onOpenCalls, onMessageErrors, uncaughtErrors>>
  /\ UNCHANGED serverVars

\* .catch((err) => ...) when wsPromise rejected: delete the entry of
\* requestId, clear the timer, reject(err)
FailReaction(k) ==
  /\ k \in 1..Len(remoteCalls)
  /\ remoteCalls[k].waiting # 0
  /\ sockets[remoteCalls[k].waiting].promise = "rejected"
  /\ pendingResponses' =
       [pendingResponses EXCEPT ![remoteCalls[k].requestId] = 0]
  /\ remoteCalls' = [remoteCalls EXCEPT ![k] =
       RejectCall([ClearTimer(@) EXCEPT !.waiting = 0],
                  sockets[remoteCalls[k].waiting].error, "connection")]
  /\ UNCHANGED <<config, now, sockets, reconnectTimers, onOpenCalls,
                 onMessageErrors, uncaughtErrors>>
  /\ UNCHANGED serverVars

(***************************************************************************)
(* websocketTransport of client.ts: the listeners of a socket.             *)
(***************************************************************************)
\* the open listener: options.onOpen?.(e, ws)
ClientSocketOpen(s) ==
  /\ transportKind = "clientWebsocket"
  /\ ~JobsWaiting
  /\ s \in 1..Len(sockets)
  /\ sockets[s].state = "connecting"
  /\ sockets' = [sockets EXCEPT ![s].state = "open"]
  /\ onOpenCalls' = onOpenCalls + 1
  /\ UNCHANGED <<config, now, remoteCalls, reconnectTimers, pendingResponses,
                 onMessageErrors, uncaughtErrors>>
  /\ UNCHANGED serverVars

\* the error listener: ws.close(), on the current socket
ClientSocketError(s) ==
  /\ transportKind = "clientWebsocket"
  /\ ~JobsWaiting
  /\ s \in 1..Len(sockets)
  /\ sockets[s].state \in {"connecting", "open"}
  /\ sockets' = [sockets EXCEPT ![Len(sockets)].state =
       IF @ \in {"connecting", "open"} THEN "closing" ELSE @]
  /\ UNCHANGED <<config, now, remoteCalls, reconnectTimers, pendingResponses,
                 onOpenCalls, onMessageErrors, uncaughtErrors>>
  /\ UNCHANGED serverVars

\* the close listener: setTimeout(connect, reconnectTimeout) unless
\* reconnecting is off or the close was clean
ClientSocketClose(s) ==
  /\ transportKind = "clientWebsocket"
  /\ ~JobsWaiting
  /\ s \in 1..Len(sockets)
  /\ sockets[s].state \in {"open", "closing"}
  /\ \E wasClean \in BOOLEAN :
       reconnectTimers' =
         IF reconnectTimeout # 0 /\ ~wasClean
         THEN reconnectTimers + 1 ELSE reconnectTimers
  /\ sockets' = [sockets EXCEPT ![s].state = "closed", ![s].sent = {}]
  /\ UNCHANGED <<config, now, remoteCalls, pendingResponses, onOpenCalls,
                 onMessageErrors, uncaughtErrors>>
  /\ UNCHANGED serverVars

NextClient ==
  \/ Tick
  \/ \E prop \in CallProps, args \in CallArgs : RemoteCall(prop, args)
  \/ \E k \in 1..MaxCalls : ResumeSendRequest(k)
  \/ \E k \in 1..MaxCalls : DeleteController(k)
  \/ \E k \in 1..MaxCalls : AbortCall(k)
  \/ \E k \in 1..MaxCalls : CustomTransportSettles(k)
  \/ \E k \in 1..MaxCalls : FetchFails(k)
  \/ \E k \in 1..MaxCalls : FetchNotOk(k)
  \/ \E k \in 1..MaxCalls : FetchOk(k)
  \/ Reconnect
  \/ \E k \in 1..MaxCalls : TimeoutFires(k)
  \/ \E s \in 1..MaxSockets, k \in 1..MaxCalls : ServerAnswers(s, k)
  \/ \E s \in 1..MaxSockets : StrayMessage(s)
  \/ \E s \in 1..MaxSockets : SocketOpen(s)
  \/ \E s \in 1..MaxSockets : SocketError(s)
  \/ \E s \in 1..MaxSockets : SocketClose(s)
  \/ \E k \in 1..MaxCalls : SendReaction(k)
  \/ \E k \in 1..MaxCalls : FailReaction(k)
  \/ \E s \in 1..MaxSockets : ClientSocketOpen(s)
  \/ \E s \in 1..MaxSockets : ClientSocketError(s)
  \/ \E s \in 1..MaxSockets : ClientSocketClose(s)

SpecClient == InitClient /\ [][NextClient]_vars

(***************************************************************************)
(* Claims about rpcClient, checked under SpecClient.                       *)
(***************************************************************************)
\* the calls made so far
Calls == 1..Len(remoteCalls)

\* what the client's transcoder makes of the value the transport of call c
\* resolved with
Deserialized(c) == Deserialize(transcoder, c.transport.value)

\* the transport of call c returned a value that deserializes to a valid
\* response, and sendRequest has settled the call
ValidResponseHandled(c) ==
  /\ c.transport.state = "fulfilled"
  /\ c.promise # Pending
  /\ ~Deserialized(c).threw
  /\ isJsonRpcResponse(Deserialized(c).v)

\* the transport of call c returned a value that deserializes to something
\* that is no valid response, and sendRequest has settled the call
InvalidResponseHandled(c) ==
  /\ c.transport.state = "fulfilled"
  /\ c.promise # Pending
  /\ ~Deserialized(c).threw
  /\ ~isJsonRpcResponse(Deserialized(c).v)

\* e is an object with a numeric code and a string message
HasCodeAndMessage(e) ==
  /\ TypeOf(e) = "object" /\ e # Null
  /\ TypeOf(Get(e, "code")) = "number"
  /\ TypeOf(Get(e, "message")) = "string"

\* e is an RpcError
IsRpcError(e) == TypeOf(e) = "object" /\ e # Null /\ Get(e, "name") = Str("RpcError")

\* C8: a call whose transport returns a valid response rejects with an
\* RpcError carrying exactly the response's error.code, error.message and
\* error.data when the response has an error, and otherwise resolves with
\* exactly the response's result.
C8_ValidResponseSettlesCall ==
  \A k \in Calls :
    LET c == remoteCalls[k]
        res == Deserialized(c).v
    IN  ValidResponseHandled(c)
        => IF In("error", res)
           THEN c.promise = Rejected(RpcError(Get(Get(res, "error"), "message"),
                                              Get(Get(res, "error"), "code"),
                                              Get(Get(res, "error"), "data")))
           ELSE c.promise = Fulfilled(Get(res, "result"))

\* one call got an error response with data and rejected with that code,
\* message and data
C8_Witness ==
  \E k \in Calls :
    /\ ValidResponseHandled(remoteCalls[k])
    /\ remoteCalls[k].promise =
         Rejected(RpcError(Str("Sorry Dave."), Num(-32000),
                           [t |-> "object", foo |-> Str("bar")]))

\* C9: when the value the transport returns does not satisfy
\* isJsonRpcResponse after deserialization, the call rejects with a
\* TypeError and does not resolve.
C9_InvalidResponseRejects ==
  \A k \in Calls :
    InvalidResponseHandled(remoteCalls[k])
    => remoteCalls[k].promise =
         Rejected(NewTypeError("Not a JSON-RPC 2.0 response"))

\* the transport of a client with the superjson transcoder returned a bare
\* response, which deserializes to undefined, and the call rejected
C9_Witness ==
  \E k \in Calls :
    /\ transcoder = "superjson"
    /\ InvalidResponseHandled(remoteCalls[k])
    /\ isJsonRpcResponse(remoteCalls[k].transport.value)
    /\ remoteCalls[k].promise.state = "rejected"

\* C10 as stated: every rejection of a call carries a numeric code and a
\* message, whatever caused it.
C10_EveryRejectionHasCode ==
  \A k \in Calls :
    remoteCalls[k].promise.state = "rejected"
    => HasCodeAndMessage(remoteCalls[k].promise.reason)

\* the causes for which the rejection is an RpcError the client or its
\* transport built: a non-success HTTP status, a timeout, an abort on a
\* websocket transport, an id that is already pending
LocalRpcErrorCause(c) ==
  \/ c.settledBy \in {"http", "timeout", "duplicate"}
  \/ c.settledBy = "abort" /\ transportKind \in WebsocketKinds

\* C10: a rejection is an RpcError with a numeric code and a message when a
\* server-reported error, a non-success HTTP status, a websocket timeout, a
\* websocket abort or a pending id caused it; an invalid response rejects
\* with a TypeError that has no code; every other failure rejects with the
\* very value the transport rejected with.
C10_RejectionByCause ==
  \A k \in Calls :
    LET c == remoteCalls[k]
        e == c.promise.reason
    IN  c.promise.state = "rejected"
        => CASE ValidResponseHandled(c) -> IsRpcError(e) /\ HasCodeAndMessage(e)
             [] InvalidResponseHandled(c) ->
                  e = NewTypeError("Not a JSON-RPC 2.0 response")
                  /\ ~HasCodeAndMessage(e)
             [] LocalRpcErrorCause(c) -> IsRpcError(e) /\ HasCodeAndMessage(e)
             [] OTHER -> e = IF c.transport.state = "rejected"
                             THEN c.transport.reason ELSE Deserialized(c).v

\* on a websocket transport one call was aborted and rejected with
\* RpcError("Request aborted", -32000)
C10_Witness ==
  \E k \in Calls :
    /\ remoteCalls[k].settledBy = "abort"
    /\ remoteCalls[k].promise =
         Rejected(RpcError(Str("Request aborted"), Num(-32000), Undefined))

(***************************************************************************)
(* Claims about the websocket transports, checked under SpecClient.        *)
(***************************************************************************)
\* the calls made so far carry pairwise distinct ids
DistinctIds ==
  \A j, k \in Calls :
    j # k => remoteCalls[j].requestId # remoteCalls[k].requestId

\* C11: on a websocket transport, when the calls carry pairwise distinct
\* ids, a call is resolved only with the response whose id is its request
\* id, which is the answer to its own request and to no other, in whatever
\* order the responses arrive; and the entry of an id is the entry of the
\* call with that id.
C11_ResolvedByOwnResponse ==
  (transportKind \in WebsocketKinds /\ DistinctIds)
  => \A k \in Calls :
       LET c == remoteCalls[k]
       IN  /\ pendingResponses[c.requestId] \in {0, k}
           /\ c.transport.state = "fulfilled"
              => /\ Get(c.transport.value, "id") = c.requestId
                 /\ c.transport.value \in Answers(c)
                 /\ \A j \in Calls \ {k} :
                      c.transport.value \notin Answers(remoteCalls[j])

\* two calls with distinct ids are out on a socket, and the second has been
\* resolved with its response while the first is still pending
C11_Witness ==
  /\ transportKind \in WebsocketKinds
  /\ Len(remoteCalls) = 2
  /\ DistinctIds
  /\ remoteCalls[1].transport = Pending
  /\ \E s \in 1..Len(sockets) : 1 \in sockets[s].sent
  /\ remoteCalls[2].transport.state = "fulfilled"
  /\ Get(remoteCalls[2].transport.value, "id") = remoteCalls[2].requestId

\* call c is in flight: sendRequest has not settled it
InFlight(c) == c.promise = Pending

\* C12: the request of a call carries an id that differs from the id of
\* every other call of the client that is still in flight, whenever the
\* calls are made.
C12_InFlightIdsDistinct ==
  \A j, k \in Calls :
    (j # k /\ InFlight(remoteCalls[j]) /\ InFlight(remoteCalls[k]))
    => Get(remoteCalls[j].req, "id") # Get(remoteCalls[k].req, "id")

\* C13: with the transport of ws.ts the pending map never loses a pending
\* call to another one: as long as the transport promise of a call is
\* pending, the entry of its id is that call's entry.
C13_PendingCallKeepsEntry ==
  transportKind = "websocket"
  => \A k \in Calls :
       remoteCalls[k].transport = Pending
       => pendingResponses[remoteCalls[k].requestId] = k

\* new RpcError("Request timed out", -32000)
RequestTimedOut == RpcError(Str("Request timed out"), Num(-32000), Undefined)

\* C14: with the transport of ws.ts and a timeout above 0, every call has a
\* timer that stays armed for as long as the call is pending, and once the
\* timer has fired on a pending call the call is rejected with
\* RpcError("Request timed out", -32000).
C14_TimeoutRejects ==
  (transportKind = "websocket" /\ timeout > 0)
  => \A k \in Calls :
       LET c == remoteCalls[k]
       IN  /\ c.transport = Pending => c.timer = "armed"
           /\ c.timer = "fired" => c.transport.state = "rejected"
           /\ c.settledBy = "timeout"
              => /\ c.timer = "fired"
                 /\ c.transport = Rejected(RequestTimedOut)
                 /\ c.promise \in {Pending, Rejected(RequestTimedOut)}

\* with the default timeout a call whose request was sent and not answered
\* has been rejected by its timer
C14_Witness ==
  /\ transportKind = "websocket"
  /\ timeout = DefaultTimeout
  /\ \E k \in Calls :
       /\ remoteCalls[k].settledBy = "timeout"
       /\ \E s \in 1..Len(sockets) : k \in sockets[s].sent
       /\ remoteCalls[k].promise = Rejected(RequestTimedOut)

\* C15: on a websocket transport, once a call has been rejected by its
\* timeout or by an abort, the pending map holds no entry of that call.
C15_EntryReleasedOnTimeoutOrAbort ==
  transportKind \in WebsocketKinds
  => \A k \in Calls :
       remoteCalls[k].settledBy \in {"timeout", "abort"}
       => pendingResponses[remoteCalls[k].requestId] # k

\* C16: with the transport of ws.ts no armed timer belongs to a call that
\* has settled: a response, a connection failure and an abort clear the
\* timer of the call they settle, and a timeout is the timer having fired.
C16_NoArmedTimerOnSettledCall ==
  transportKind = "websocket"
  => \A k \in Calls :
       remoteCalls[k].timer = "armed" => remoteCalls[k].transport = Pending

\* one call was resolved by its response and another rejected by the
\* connection error, and the timers of both are cleared
C16_Witness ==
  /\ transportKind = "websocket"
  /\ \E j, k \in Calls :
       /\ remoteCalls[j].settledBy = "response"
       /\ remoteCalls[j].timer = "cleared"
       /\ remoteCalls[k].settledBy = "connection"
       /\ remoteCalls[k].timer = "cleared"

\* the transport has not settled the call yet
AwaitingTransport(c) == c.transport = Pending

\* the rejection an abort produces with the configured transport
AbortRejections ==
  IF transportKind = "fetch" THEN {Rejected(e) : e \in AbortErrors}
  ELSE {Rejected(RequestAborted)}

\* what a step that signals the controller of a call does to the calls
AbortStep ==
  \A k \in Calls :
    (~remoteCalls[k].aborted /\ remoteCalls'[k].aborted)
    => /\ AwaitingTransport(remoteCalls[k])
          => /\ remoteCalls'[k].transport \in AbortRejections
             /\ remoteCalls'[k].settledBy = "abort"
       /\ \A j \in Calls : j # k => remoteCalls'[j] = remoteCalls[j]

\* C17: with the fetch and the websocket transports, a step in which
\* client.$abort(p) signals the controller of a call whose transport has
\* not settled rejects that call (AbortError of fetch, or
\* RpcError("Request aborted", -32000) of a websocket transport), and
\* leaves every other call of the client as it was.
C17_AbortRejectsOwnCallOnly ==
  [][(transportKind \in {"fetch"} \cup WebsocketKinds) => AbortStep]_vars

\* one call was aborted while its transport was pending and is rejected
\* with the abort error; another call of the client is still in flight
C17_Witness ==
  /\ transportKind \in {"fetch"} \cup WebsocketKinds
  /\ \E j, k \in Calls :
       /\ j # k
       /\ remoteCalls[k].aborted
       /\ remoteCalls[k].settledBy = "abort"
       /\ remoteCalls[k].transport \in AbortRejections
       /\ ~remoteCalls[j].aborted
       /\ AwaitingTransport(remoteCalls[j])
       /\ remoteCalls[j].promise = Pending

\* the JSON values a socket of the client can receive
InboundValues ==
  {m.value : m \in {x \in StrayMessages \cup Notifications : x.kind = "json"}}
    \cup UNION {Answers(remoteCalls[k]) : k \in Calls}

\* the message listener of the configured websocket transport run on the
\* JSON text of value v
Listener(v) ==
  IF transportKind = "websocket"
  THEN OnMessage([kind |-> "json", value |-> v])
  ELSE ClientOnMessage([kind |-> "json", value |-> v])

\* a call has an entry in the pending map and its transport is pending
SomeCallPending ==
  \E k \in Calls : /\ remoteCalls[k].transport = Pending
                   /\ pendingResponses[remoteCalls[k].requestId] = k

\* what the listener does with a valid response whose id has no entry
UnknownIdStep ==
  \A v \in InboundValues :
    (/\ isJsonRpcResponse(v)
     /\ v.id # Null
     /\ PendingFor(v.id) = 0
     /\ SomeCallPending
     /\ Listener(v))
    => /\ onMessageErrors' =
            Append(onMessageErrors,
                   NewError("Request not found for id: " \o IdText(v.id)))
       /\ uncaughtErrors' = uncaughtErrors
       /\ pendingResponses' = pendingResponses
       /\ remoteCalls' = remoteCalls

\* C18: with a websocket transport, while a call is pending, the message
\* listener run on a valid response whose non-null id has no entry in the
\* pending map calls onMessageError with Error("Request not found for id:
\* <id>"), throws nothing, and leaves the pending map and every call (the
\* pending one, its timer included) as they were.
C18_UnknownIdReportedOnly ==
  [][(transportKind \in WebsocketKinds) => UnknownIdStep]_vars

\* the unknown id was reported while a call is pending with its entry in
\* the map and its timer armed
C18_Witness ==
  /\ transportKind \in WebsocketKinds
  /\ onMessageErrors =
       <<NewError("Request not found for id: unknown-id")>>
  /\ uncaughtErrors = <<>>
  /\ \E k \in Calls :
       /\ remoteCalls[k].transport = Pending
       /\ remoteCalls[k].timer = "armed"
       /\ pendingResponses[remoteCalls[k].requestId] = k
       /\ \E s \in 1..Len(sockets) : k \in sockets[s].sent

\* the messages that are no JSON text or no JSON-RPC response
MalformedMessages ==
  {m \in StrayMessages : m.kind = "text" \/ ~isJsonRpcResponse(m.value)}

\* what onMessageError is called with for a malformed message
MalformedReport(m) ==
  IF m.kind = "text" THEN JsonParse(m).v ELSE NewTypeError("Invalid response")

\* what the listener of ws.ts does with a malformed message
MalformedStep ==
  \A m \in MalformedMessages :
    OnMessage(m)
    => /\ onMessageErrors' = Append(onMessageErrors, MalformedReport(m))
       /\ uncaughtErrors' = uncaughtErrors
       /\ pendingResponses' = pendingResponses
       /\ remoteCalls' = remoteCalls

\* C19: with the websocket transport of ws.ts, the message listener run on
\* a message that is not parseable JSON or is no JSON-RPC response calls
\* onMessageError (with the parse error, or with TypeError("Invalid
\* response")), throws nothing, settles no call and leaves the pending map
\* as it was.
C19_MalformedMessageReportedOnly ==
  [][(transportKind = "websocket") => MalformedStep]_vars

\* the parse error of a message was reported while a call that was sent is
\* pending with its entry in the map
C19_Witness ==
  /\ transportKind = "websocket"
  /\ Len(onMessageErrors) = 1
  /\ onMessageErrors[1].name = Str("SyntaxError")
  /\ uncaughtErrors = <<>>
  /\ \E k \in Calls :
       /\ remoteCalls[k].transport = Pending
       /\ pendingResponses[remoteCalls[k].requestId] = k
       /\ \E s \in 1..Len(sockets) : k \in sockets[s].sent

\* the connection attempts a close event with ev.wasClean and ev.reason
\* has to schedule
AttemptsDue(wasClean, reason) ==
  IF reconnectTimeout # 0 /\ (~wasClean \/ reason = "reconnect") THEN 1 ELSE 0

\* a close event schedules the attempts that are due, and a socket is
\* created only by a scheduled attempt, one socket for one timer
CloseStep ==
  /\ \A s \in 1..Len(sockets), wasClean \in BOOLEAN, reason \in CloseReasons :
       (SocketClose(s) /\ OnClose(wasClean, reason))
       => reconnectTimers' = reconnectTimers + AttemptsDue(wasClean, reason)
  /\ reconnectTimers' > reconnectTimers
     => /\ reconnectTimers' = reconnectTimers + 1
        /\ \E s \in 1..Len(sockets) :
             sockets[s].state # "closed" /\ sockets'[s].state = "closed"
  /\ Len(sockets') # Len(sockets)
     => /\ Len(sockets') = Len(sockets) + 1
        /\ reconnectTimers > 0
        /\ reconnectTimers' = reconnectTimers - 1

\* C20: with the websocket transport of ws.ts, a close event schedules
\* exactly one connection attempt if reconnectTimeout is not 0 and the close
\* was unclean or had the reason "reconnect", and none otherwise; a new
\* socket is only ever created by such a scheduled attempt, so with
\* reconnectTimeout 0 there is never a second socket.
C20_ReconnectOnUncleanClose ==
  /\ [](transportKind = "websocket" /\ reconnectTimeout = 0
        => reconnectTimers = 0 /\ Len(sockets) = 1)
  /\ [][(transportKind = "websocket") => CloseStep]_vars

\* the first socket was closed and the attempt its close scheduled has
\* created the second socket; no further attempt is scheduled
C20_Witness ==
  /\ transportKind = "websocket"
  /\ reconnectTimeout = DefaultReconnectTimeout
  /\ Len(sockets) = 2
  /\ sockets[1].state = "closed"
  /\ sockets[2].state \in {"connecting", "open"}
  /\ reconnectTimers = 0

\* what happens, step by step, to a call issued once reconnected: it waits
\* for the new socket, is written to it, and the answer that arrives on it
\* resolves the transport with that answer
ReconnectedCallStep ==
  LET new == Len(sockets)
  IN  Reconnected =>
        /\ Len(remoteCalls') > Len(remoteCalls)
           => LET k == Len(remoteCalls')
              IN  /\ remoteCalls'[k].waiting = new
                  /\ remoteCalls'[k].transport = Pending
                  /\ pendingResponses'[remoteCalls'[k].requestId] = k
        /\ \A k \in Calls :
             /\ (remoteCalls[k].waiting = new /\ remoteCalls'[k].waiting = 0)
                => /\ k \in sockets'[new].sent
                   /\ \A s \in 1..(new - 1) : k \notin sockets'[s].sent
                   /\ remoteCalls'[k].transport = remoteCalls[k].transport
             /\ (/\ k \in sockets[new].sent
                 /\ k \notin sockets'[new].sent
                 /\ sockets'[new].state = "open"
                 /\ remoteCalls[k].transport = Pending
                 /\ pendingResponses[remoteCalls[k].requestId] = k)
                => /\ remoteCalls'[k].transport.state = "fulfilled"
                   /\ remoteCalls'[k].transport.value \in Answers(remoteCalls[k])
                   /\ remoteCalls'[k].settledBy = "response"

\* C21: with the transport of ws.ts and reconnection enabled, once a socket
\* has closed and the socket of the reconnection has opened (onOpen called
\* again), a call issued then waits for the new socket, its request is
\* written to the new socket and to no other, and the answer arriving there
\* settles the call with that answer.
C21_CallAfterReconnect ==
  [][(transportKind = "websocket") => ReconnectedCallStep]_vars

\* a call made after the reconnection (the first socket had closed, the
\* second had opened and onOpen had been called twice) was written to the
\* second socket, answered there and has resolved with the result of its
\* response
C21_Witness ==
  /\ transportKind = "websocket"
  /\ Reconnected
  /\ Len(sockets) = 2
  /\ sockets[1].state = "closed"
  /\ \E k \in Calls :
       /\ remoteCalls[k].reconnected
       /\ remoteCalls[k].sentOn = 2
       /\ remoteCalls[k].settledBy = "response"
       /\ remoteCalls[k].waiting = 0
       /\ remoteCalls[k].transport =
            Fulfilled(Response(remoteCalls[k].requestId, "result",
                               Str("Hello world!")))
       /\ remoteCalls[k].promise = Fulfilled(Str("Hello world!"))
       /\ pendingResponses[remoteCalls[k].requestId] = 0

\* the request of call k was written to no socket
NeverSent(k) == \A s \in 1..Len(sockets) : k \notin sockets[s].sent

\* the reaction of a waiting call to the failure of its connection
ConnectionFailureStep ==
  \A k \in Calls :
    LET c == remoteCalls[k]
    IN  (/\ c.waiting # 0
         /\ sockets[c.waiting].promise = "rejected"
         /\ remoteCalls'[k].waiting = 0)
        => /\ c.transport = Pending
              => /\ remoteCalls'[k].transport = Rejected(sockets[c.waiting].error)
                 /\ remoteCalls'[k].settledBy = "connection"
           /\ remoteCalls'[k].timer # "armed"
           /\ pendingResponses'[c.requestId] = 0
           /\ sockets' = sockets

\* C22: with the transport of ws.ts, when a connection fails before it
\* opens, each call waiting on it that is still pending is rejected with
\* the error of the connection, the entry of its id is removed from the pending map, its
\* timer is cleared, and its request is written to no socket, then or
\* later.
C22_ConnectionFailureRejects ==
  /\ [](transportKind = "websocket"
        => \A k \in Calls :
             remoteCalls[k].settledBy = "connection"
             => /\ remoteCalls[k].transport \in
                     {Rejected(e) : e \in ConnectionErrors}
                /\ remoteCalls[k].timer # "armed"
                /\ remoteCalls[k].waiting = 0
                /\ pendingResponses[remoteCalls[k].requestId] # k
                /\ NeverSent(k))
  /\ [][(transportKind = "websocket") => ConnectionFailureStep]_vars

\* a call that waited on a connection that failed is rejected with the
\* error of the connection, without entry, its timer cleared, nothing sent
C22_Witness ==
  /\ transportKind = "websocket"
  /\ timeout = DefaultTimeout
  /\ \E k \in Calls :
       /\ remoteCalls[k].settledBy = "connection"
       /\ remoteCalls[k].promise = Rejected(NewError("socket hang up"))
       /\ remoteCalls[k].timer = "cleared"
       /\ pendingResponses[remoteCalls[k].requestId] = 0
       /\ NeverSent(k)
       /\ sockets[1].promise = "rejected"

(***************************************************************************)
(* createRequest on argument lists of every shape: the calls of a client   *)
(* with up to MaxArgs arguments, each undefined or not.                    *)
(***************************************************************************)
\* the argument lists client.method(...args) is called with
RequestArgLists ==
  UNION {[1..n -> {Str("world"), Undefined}] : n \in 0..MaxArgs}

\* the property names read from the client: those of CallProps and a name
\* with the prefix $ that the client does not define
RequestProps == CallProps \cup {Str("$close")}

NextCreateRequest ==
  \/ Tick
  \/ \E prop \in RequestProps, args \in RequestArgLists : RemoteCall(prop, args)

SpecCreateRequest == InitClient /\ [][NextCreateRequest]_vars

\* args is base followed by undefined values only, and base does not end in
\* undefined
PaddingOf(args, base) ==
  /\ Len(base) <= Len(args)
  /\ SubSeq(args, 1, Len(base)) = base
  /\ \A i \in (Len(base) + 1)..Len(args) : args[i] = Undefined
  /\ Len(base) > 0 => base[Len(base)] # Undefined

\* C23: two calls of the same method, one with N arguments not ending in
\* undefined and one with the same arguments followed by undefined values
\* only, build requests with the same params, in presence and in elements.
C23_PaddingKeepsParams ==
  \A j, k \in Calls :
    (/\ remoteCalls[j].method = remoteCalls[k].method
     /\ PaddingOf(remoteCalls[k].args, remoteCalls[j].args))
    => remoteCalls[k].req.params = remoteCalls[j].req.params

\* C24: every request built by createRequest has jsonrpc "2.0" and the
\* method called, and has either no params or a params array that is not
\* empty and does not end in undefined.
C24_ParamsAbsentOrNonEmpty ==
  \A k \in Calls :
    LET built == remoteCalls[k].req
        params == built.params
    IN  /\ built.jsonrpc = Str("2.0")
        /\ built.method = Str(remoteCalls[k].method)
        /\ \/ params = Absent
           \/ /\ params.t = "array"
              /\ Len(params.a) > 0
              /\ params.a[Len(params.a)] # Undefined

\* the names of RequestProps that start with $
DollarNames == {"$abort", "$close"}

\* C25: no request is ever created for a control name defined on the
\* client ($abort), for a name with the reserved prefix $, or for toJSON
\* (a symbol has no name a request could carry).
C25_ReservedNamesNotRemote ==
  \A k \in Calls :
    /\ remoteCalls[k].method \notin DollarNames
    /\ remoteCalls[k].method # "toJSON"
    /\ ~In(remoteCalls[k].method, ProxyTarget)

\* the rejections of the fetch transport for replies that are not res.ok
HttpRejections ==
  {Rejected(RpcError(Str(h.statusText), Num(h.status), Undefined)) :
     h \in HttpFailures}

\* C26: with the fetch transport a reply with a non-success status rejects
\* the call with RpcError(statusText, status), and no call rejected for the
\* error member of a response is rejected with an error of the same kind,
\* code and message.
C26_HttpFailureDistinguishable ==
  transportKind = "fetch"
  => \A k \in Calls :
       LET c == remoteCalls[k]
       IN  /\ c.settledBy = "http" => c.transport \in HttpRejections
           /\ (c.settledBy = "response" /\ c.promise # Pending)
              => \A r \in HttpRejections :
                   ~(/\ c.promise.state = "rejected"
                     /\ c.promise.reason.t = "object"
                     /\ c.promise.reason.name = r.reason.name
                     /\ c.promise.reason.code = r.reason.code
                     /\ c.promise.reason.message = r.reason.message)

\* x is a non-null object with jsonrpc "2.0", an id that is a string, a
\* number or null, and exactly one of result and error, an error being an
\* object with a numeric code and a string message
WellFormedResponse(x) ==
  /\ TypeOf(x) = "object"
  /\ x # Null
  /\ Get(x, "jsonrpc") = Str("2.0")
  /\ In("id", x)
  /\ Get(x, "id") = Null \/ TypeOf(Get(x, "id")) \in {"string", "number"}
  /\ In("result", x) # In("error", x)
  /\ In("error", x)
     => /\ TypeOf(Get(x, "error")) = "object"
        /\ Get(x, "error") # Null
        /\ TypeOf(Get(Get(x, "error"), "code")) = "number"
        /\ TypeOf(Get(Get(x, "error"), "message")) = "string"

\* the rejection of sendRequest for a value that is no response
NotAResponse == Rejected(NewTypeError("Not a JSON-RPC 2.0 response"))

\* C27: isJsonRpcResponse(x) is true exactly for the well-formed responses;
\* for every value a transport resolved with and the transcoder
\* deserialized, the test agrees with the characterisation, and sendRequest
\* rejects the value as "Not a JSON-RPC 2.0 response" exactly when it is
\* not well-formed.
C27_ResponseTestExact ==
  \A k \in Calls :
    LET c == remoteCalls[k]
    IN  (c.transport.state = "fulfilled" /\ ~Deserialized(c).threw)
        => /\ isJsonRpcResponse(Deserialized(c).v)
                <=> WellFormedResponse(Deserialized(c).v)
           /\ c.promise # Pending
              => (c.promise = NotAResponse
                    <=> ~WellFormedResponse(Deserialized(c).v))

\* one call resolved with a response whose result is null, which is
\* accepted, and another with one that has both result and error, which is
\* rejected
C27_Witness ==
  \E j, k \in Calls :
    /\ remoteCalls[j].transport.state = "fulfilled"
    /\ ~Deserialized(remoteCalls[j]).threw
    /\ Deserialized(remoteCalls[j]).v = Response(Null, "result", Null)
    /\ remoteCalls[j].promise = Fulfilled(Null)
    /\ remoteCalls[k].transport.state = "fulfilled"
    /\ ~Deserialized(remoteCalls[k]).threw
    /\ In("result", Deserialized(remoteCalls[k]).v)
    /\ In("error", Deserialized(remoteCalls[k]).v)
    /\ remoteCalls[k].promise = NotAResponse

(***************************************************************************)
(* Further claims about handleRpc, checked under SpecServer.               *)
(***************************************************************************)
\* x is a non-null object with jsonrpc "2.0", a string method, and params
\* absent or an array
StatedRequestShape(x) ==
  /\ TypeOf(x) = "object"
  /\ x # Null
  /\ Get(x, "jsonrpc") = Str("2.0")
  /\ TypeOf(Get(x, "method")) = "string"
  /\ Get(x, "params") = Undefined \/ Get(x, "params").t = "array"

\* the same, with an id that is absent, a string, a number or null
RequestShape(x) ==
  /\ StatedRequestShape(x)
  /\ \/ Get(x, "id") \in {Undefined, Null}
     \/ TypeOf(Get(x, "id")) \in {"string", "number"}

\* handleRpc answered with the error -32600
RefusedAsInvalid ==
  returned = Fulfilled(ErrorEnvelope(EchoedId(request), -32600,
                                     "Invalid Request"))

\* C28 as stated: isJsonRpcRequest(x) is true exactly when x is a non-null
\* object with jsonrpc "2.0", a string method, and params absent or an
\* array; handleRpc refuses exactly the other requests as invalid.
C28_RequestTestAsStated ==
  /\ isJsonRpcRequest(req) <=> StatedRequestShape(req)
  /\ (pc = "done" /\ NoTranscoder)
     => (RefusedAsInvalid <=> ~StatedRequestShape(request))

\* C28 amended: isJsonRpcRequest(x) is true exactly when x is a non-null
\* object with jsonrpc "2.0", a string method, params absent or an array,
\* and an id that is absent, a string, a number or null; handleRpc refuses
\* exactly the other requests as invalid.
C28_RequestTestExact ==
  /\ isJsonRpcRequest(req) <=> RequestShape(req)
  /\ (pc = "done" /\ NoTranscoder)
     => (RefusedAsInvalid <=> ~RequestShape(request))

\* a request with jsonrpc "2.0", the method hello, no params and the id
\* true was refused as invalid
C28_Witness ==
  /\ pc = "done" /\ NoTranscoder /\ service = TestService
  /\ request = [t |-> "object", jsonrpc |-> Str("2.0"), id |-> Bool(TRUE),
                method |-> Str("hello"), params |-> Absent]
  /\ req = request
  /\ ~isJsonRpcRequest(req)
  /\ returned = Fulfilled(ErrorEnvelope(Null, -32600, "Invalid Request"))
  /\ calls = <<>>

\* the value the invoked method threw, as it was when it was caught
ThrownValue ==
  Call(service, calls[Len(calls)],
       Spread(Nullish(Get(req, "params"), Arr(<<>>)))).v

\* the code, message and data the catch block has to put in the envelope
\* for the caught value e: what a supplied hook returns, else the default
ExpectedCode(e) ==
  IF options.getErrorCode = "masks" THEN MaskedCode ELSE getErrorCode(e)

ExpectedMessage(e) ==
  IF options.getErrorMessage = "masks" THEN MaskedMessage
  ELSE getErrorMessage(e)

ExpectedData(e) ==
  IF options.getErrorData = "masks" THEN MaskedData ELSE getErrorData(e).v

\* C29: when the invoked method throws e and handleRpc returns the error
\* envelope, its code, message and data are what the supplied getErrorCode,
\* getErrorMessage and getErrorData return for e, each one replacing the
\* default derivation on its own; a request that is refused as invalid or
\* whose method is not found gets -32600 or -32601 with the fixed message,
\* whatever hooks are supplied, throwing ones included.
C29_HooksReplaceDefaults ==
  (pc = "done" /\ NoTranscoder)
  => /\ (calls # <<>> /\ settled.threw /\ returned.state = "fulfilled")
        => /\ returned.value.error.code = ExpectedCode(ThrownValue)
           /\ returned.value.error.message = ExpectedMessage(ThrownValue)
           /\ returned.value.error.data = ExpectedData(ThrownValue)
     /\ calls = <<>>
        => /\ onErrorCalls = <<>>
           /\ \/ RefusedAsInvalid
              \/ returned =
                   Fulfilled(ErrorEnvelope(EchoedId(request), -32601,
                     "Method not found: " \o Get(request, "method").s))

\* getErrorCode and getErrorMessage are supplied and getErrorData is not:
\* the error thrown with data has the code and the message of the hooks and
\* its own data
C29_Witness ==
  /\ pc = "done" /\ NoTranscoder /\ service = TestService
  /\ options.getErrorCode = "masks"
  /\ options.getErrorMessage = "masks"
  /\ options.getErrorData = "absent"
  /\ calls = <<"throwWithData">>
  /\ returned.state = "fulfilled"
  /\ returned.value.error =
       [t |-> "object", code |-> MaskedCode, message |-> MaskedMessage,
        data |-> [t |-> "object", foo |-> Str("bar")]]

\* a value JSON text can represent as it is
JsonRepresentable(v) == v.t \notin {"function", "bigint", "date", "absent"}

\* C30: with the default getErrorData the data of an error envelope is the
\* JSON round-trip copy of the thrown value's data, is never a value JSON
\* cannot represent, and is missing when the thrown value has no data.
C30_DataIsJsonCopy ==
  ( /\ pc = "done" /\ NoTranscoder
    /\ options.getErrorData = "absent"
    /\ calls # <<>> /\ settled.threw
    /\ returned.state = "fulfilled" )
  => LET e == ThrownValue
         data == returned.value.error.data
     IN  IF hasProperty(e, "data")
         THEN /\ data = Undefined \/ JsonRepresentable(data)
              /\ data \in {JsonStringify(Get(e, "data")).v, Undefined}
         ELSE data = Undefined

\* a step that refuses a new request as "Request already exists" finds its
\* id held by a call that was not resolved, timed out or aborted
RefusalStep ==
  LET k == Len(remoteCalls')
  IN  (Len(remoteCalls') > Len(remoteCalls)
         /\ remoteCalls'[k].settledBy = "duplicate")
      => remoteCalls[pendingResponses[remoteCalls'[k].requestId]].settledBy
           \notin {"response", "timeout", "abort"}

\* C31: with the transport of client.ts an id is usable again once its call
\* was resolved, rejected by its timeout or aborted: a request issued with
\* that id afterwards is not refused as "Request already exists".
C31_IdUsableAfterSettle ==
  [][(transportKind = "clientWebsocket") => RefusalStep]_vars

\* C32: with a websocket transport and timeout 0 no call has a timer and no
\* call is rejected by a timeout; with the transport of ws.ts a call is
\* pending until a response, an abort or the failure of its connection
\* settles it.
C32_NoTimerWithoutTimeout ==
  (transportKind \in WebsocketKinds /\ timeout = 0)
  => \A k \in Calls :
       LET c == remoteCalls[k]
       IN  /\ c.timer = "none"
           /\ c.settledBy # "timeout"
           /\ transportKind = "websocket"
              => /\ c.settledBy \in {"none", "response", "abort", "connection"}
                 /\ c.transport = Pending <=> c.settledBy = "none"

\* with timeout 0, after the clock has run to its end, a call whose request
\* was sent and not answered is still pending and has no timer
C32_Witness ==
  /\ transportKind = "websocket"
  /\ timeout = 0
  /\ now = MaxClock
  /\ \E k \in Calls :
       /\ Get(remoteCalls[k].req, "id") = Num(1)
       /\ \E s \in 1..Len(sockets) : k \in sockets[s].sent
       /\ remoteCalls[k].transport = Pending
       /\ remoteCalls[k].promise = Pending
       /\ remoteCalls[k].timer = "none"

\* what the listener does with a valid response whose id is null
NullIdStep ==
  \A v \in InboundValues :
    (isJsonRpcResponse(v) /\ v.id = Null /\ Listener(v))
    => /\ remoteCalls' = remoteCalls
       /\ pendingResponses' = pendingResponses
       /\ onMessageErrors' = onMessageErrors
       /\ uncaughtErrors' = uncaughtErrors

\* C33: with a websocket transport, the message listener run on a valid
\* response whose id is null settles no call, leaves the pending map as it
\* was and does not call onMessageError.
C33_NullIdDropped ==
  [][(transportKind \in WebsocketKinds) => NullIdStep]_vars

\* the state a response with id null arrives in and leaves as it is: the
\* socket is open, a call that was sent is pending with its entry and its
\* timer, and nothing was reported
C33_Witness ==
  /\ transportKind \in WebsocketKinds
  /\ onMessageErrors = <<>>
  /\ uncaughtErrors = <<>>
  /\ \E v \in InboundValues : isJsonRpcResponse(v) /\ v.id = Null
  /\ \E s \in 1..Len(sockets), k \in Calls :
       /\ sockets[s].state = "open"
       /\ k \in sockets[s].sent
       /\ remoteCalls[k].transport = Pending
       /\ remoteCalls[k].timer = "armed"
       /\ pendingResponses[remoteCalls[k].requestId] = k
       /\ ENABLED StrayMessage(s)

\* the response the transport of call c returned carries another id than
\* the request of c, null included
ForeignId(c) == Get(Deserialized(c).v, "id") # Get(c.req, "id")

\* C34: rpcClient compares no ids: a call whose own transport invocation
\* returned a valid response with a result resolves with that result also
\* when the id of the response is null or differs from the id of the
\* request.
C34_NoCorrelationInClient ==
  \A k \in Calls :
    LET c == remoteCalls[k]
    IN  (/\ ValidResponseHandled(c)
         /\ ForeignId(c)
         /\ In("result", Deserialized(c).v))
        => c.promise = Fulfilled(Get(Deserialized(c).v, "result"))

\* a custom transport answered the request with id 1 of one call with a
\* response with id null and that of another with a response with id "a",
\* and both calls resolved with the results of these responses
C34_Witness ==
  /\ transportKind = "custom"
  /\ \E j, k \in Calls :
       /\ Get(remoteCalls[j].req, "id") = Num(1)
       /\ ValidResponseHandled(remoteCalls[j])
       /\ Deserialized(remoteCalls[j]).v = Response(Null, "result", Null)
       /\ remoteCalls[j].promise = Fulfilled(Null)
       /\ ValidResponseHandled(remoteCalls[k])
       /\ Deserialized(remoteCalls[k]).v =
            Response(Str("a"), "result", Str("Custom!"))
       /\ remoteCalls[k].promise = Fulfilled(Str("Custom!"))

\* C35: a valid request whose id is absent or null and whose method names a
\* function member of the service has that member invoked exactly once and
\* gets a response envelope with id null.
C35_NotificationAnswered ==
  ( /\ pc = "done" /\ NoTranscoder
    /\ isJsonRpcRequest(request)
    /\ Get(request, "id") \in {Undefined, Null}
    /\ IsFunctionMember(service, Get(request, "method").s) )
  => /\ calls = <<Get(request, "method").s>>
     /\ returned.state = "fulfilled"
     /\ isJsonRpcResponse(returned.value)
     /\ Get(returned.value, "id") = Null

\* a step in which the answer to the request of call k arrives settles no
\* call but k
AnswerStep ==
  \A s \in 1..Len(sockets), k \in Calls :
    (/\ k \in sockets[s].sent
     /\ k \notin sockets'[s].sent
     /\ sockets'[s].state = "open")
    => \A j \in Calls \ {k} :
         remoteCalls'[j].transport = remoteCalls[j].transport

\* C36: over a websocket transport, however calls and responses interleave,
\* the response the server produced for the request of one call never
\* resolves another call.
C36_NoForeignResult ==
  [][(transportKind \in WebsocketKinds) => AnswerStep]_vars

\* a step that writes the request of call k to a socket finds the call pending
SendStep ==
  \A s \in 1..Len(sockets), k \in Calls :
    (k \notin sockets[s].sent /\ k \in sockets'[s].sent)
    => remoteCalls[k].transport = Pending

\* C37: the transport of ws.ts writes a request to the socket only while its
\* call is pending; a call that timed out or was aborted while the socket
\* was connecting is not sent when the socket opens.
C37_SentOnlyWhilePending ==
  [][(transportKind = "websocket") => SendStep]_vars

\* a step leaves every settled transport promise and every settled call as
\* it is, and with the transport of ws.ts no listener or callback throws
SettledStaysStep ==
  /\ \A k \in Calls :
       /\ remoteCalls[k].transport # Pending
          => /\ remoteCalls'[k].transport = remoteCalls[k].transport
             /\ remoteCalls'[k].settledBy = remoteCalls[k].settledBy
       /\ remoteCalls[k].promise # Pending
          => remoteCalls'[k].promise = remoteCalls[k].promise
  /\ transportKind = "websocket" => uncaughtErrors' = uncaughtErrors

\* C38: over a websocket transport a call settles once: the first of
\* response, timeout, abort and send failure decides the outcome, and a
\* later event for the call neither changes the outcome nor throws.
C38_SettlesOnce ==
  [][(transportKind \in WebsocketKinds) => SettledStaysStep]_vars

\* a call timed out and its response arrived afterwards, finding the entry
\* the timer left; another was aborted after its response
C38_Witness ==
  /\ transportKind = "websocket"
  /\ Len(remoteCalls) = 2
  /\ Len(sockets) = 1
  /\ sockets[1].state = "open"
  /\ sockets[1].sent = {}
  /\ remoteCalls[1].requestId # remoteCalls[2].requestId
  /\ remoteCalls[1].settledBy = "timeout"
  /\ remoteCalls[1].timer = "fired"
  /\ remoteCalls[1].waiting = 0
  /\ remoteCalls[1].sentOn = 1
  /\ remoteCalls[1].promise.state = "rejected"
  /\ pendingResponses[remoteCalls[1].requestId] = 0
  /\ remoteCalls[2].settledBy = "response"
  /\ remoteCalls[2].aborted
  /\ remoteCalls[2].timer = "cleared"
  /\ uncaughtErrors = <<>>

(***************************************************************************)
(* handleRpc behind a host that sends the envelope as JSON text, as the    *)
(* /api route of the test server does, and a client whose transport parses *)
(* that text.                                                              *)
(***************************************************************************)
\* the completion of the client's call once the transport resolved with the
\* envelope sent as JSON text, the client having no transcoder
EndToEnd(envelope) == HandleResponse("identity", OverJsonText(envelope))

\* C39: over JSON text a call whose service method completes without
\* throwing resolves on the client with the value the method returned, a
\* method that returns undefined included.
C39_ResolvesWithReturnValue ==
  ( /\ pc = "done" /\ NoTranscoder
    /\ isJsonRpcRequest(request) /\ Get(request, "id").t = "number"
    /\ calls # <<>> /\ ~settled.threw )
  => /\ returned.state = "fulfilled"
     /\ EndToEnd(returned.value) = Returns(settled.v)
\* the sockets that are connecting or open
LiveSockets == {s \in 1..Len(sockets) : sockets[s].state \in {"connecting", "open"}}

\* C40: with the transport of ws.ts, whatever open, error and close events
\* occur, at most one socket is connecting or open and at most one
\* reconnect timer is scheduled.
C40_OneConnection ==
  (transportKind = "websocket")
  => /\ Cardinality(LiveSockets) <= 1
     /\ reconnectTimers <= 1
     /\ reconnectTimers = 1 => LiveSockets = {}

\* the second socket, made by a reconnect, has closed in its turn and the
\* next reconnect is scheduled
C40_Witness ==
  /\ transportKind = "websocket"
  /\ Len(sockets) = 2
  /\ sockets[1].state = "closed"
  /\ sockets[2].state = "closed"
  /\ sockets[2].errorSeen
  /\ reconnectTimers = 1

=============================================================================
